---- MODULE Spec2Model ----
(***************************************************************************)
(* Gesture-driven card navigation of the friends quiz app.                 *)
(*                                                                         *)
(* The host component QuizApp (src/src/components/QuizApp.tsx, lines       *)
(* 1-518) owns the question sequence, the active index and the chrome      *)
(* state; the card component QuizCard (src/unnamed/part_004) owns the drag *)
(* and transition state and schedules the commit and snap-back timers.     *)
(*                                                                         *)
(* One action is one browser task: a DOM event handler or a timer callback *)
(* together with the React render and the effects it triggers.  Timer      *)
(* callbacks keep the closure of the render that scheduled them.  Pending   *)
(* timers are kept in scheduling order; a timer may run before an earlier  *)
(* scheduled one only if its delay is shorter.                             *)
(*                                                                         *)
(* The pure functions of the program (deep-link resolution, hyphenation,   *)
(* color resolution and interpolation, the card window, the smart shuffle) *)
(* and the useMotion hook have their own specifications: the variable call *)
(* holds the arguments and the result of one evaluation, the variable      *)
(* motion the state of the hook.  The styles of the five slides are        *)
(* functions of the card state; they are checked along the navigation on a *)
(* wide phone and on a desktop window.                                     *)
(***************************************************************************)
EXTENDS Integers, Sequences, FiniteSets, TLC

\* ---------------------------------------------------------------- bounds
NumQuestions == 3
MaxCommitTimers == 2
MaxSnapTimers == 1
MobileHalfWidth == 100
WideMobileWidth == 400
DesktopWidth == 1000
MaxWindowLen == 5
MaxShuffleLen == 4

\* ------------------------------------------------------ program constants
dragThreshold == 100
MobileBreakpoint == 768
MobileTransitionMs == 300
DesktopTransitionMs == 400
SnapBackMs == 300
MobileEdgeZone == 16
DesktopEdgeZone == 40
MobileMaxWidth == 700
DesktopMaxCard == 500
CardMargin == 32
SlideGap == 16

Null == "null"

Min(a, b) == IF a < b THEN a ELSE b
Abs(a) == IF a < 0 THEN -a ELSE a

VARIABLES
  host,        \* state of QuizApp
  card,        \* state of the mounted QuizCard instance
  timers,      \* pending setTimeout callbacks, in scheduling order
  pointer,     \* where the mouse button / finger went down
  innerWidth,  \* window.innerWidth
  search,      \* the q parameter of window.location.search
  notes,       \* onDragStateChange calls made by the last task
  last,        \* the last task and the branch it took
  motion,      \* refs and state of the useMotion hook, and its frame queue
  call         \* the evaluation of a pure function: arguments and result

vars == <<host, card, timers, pointer, innerWidth, search, notes, last, motion, call>>

\* the variables of the card navigation
navVars == <<host, card, timers, pointer, innerWidth, search, notes, last>>

\* no pure function under evaluation
NoCall == [fn |-> "none", arg |-> <<>>, res |-> <<>>, done |-> TRUE]

\* useMotion before mount: refs at their initial values, nothing scheduled
NoMotion ==
  [phase |-> "init", enabling |-> FALSE, listening |-> FALSE,
   permission |-> "unknown", y |-> 0, latestYRef |-> 0, rafId |-> 0,
   ticking |-> FALSE, frames |-> <<>>, nextId |-> 1,
   recent |-> 0, coalesced |-> FALSE, ran |-> 0, op |-> "init"]

\* ---------------------------------------------------------------- data
Cat(i) == IF i % 2 = 1 THEN "party" ELSE "family"

\* the list delivered by the data-loading collaborator
LoadedQuestions == [i \in 1..NumQuestions |-> [question |-> i, category |-> Cat(i)]]

Categories == {LoadedQuestions[i].category : i \in 1..NumQuestions}

RECURSIVE Filter(_, _)
Filter(qs, sel) ==
  IF qs = <<>> THEN <<>>
  ELSE IF Head(qs).category \in sel THEN <<Head(qs)>> \o Filter(Tail(qs), sel)
       ELSE Filter(Tail(qs), sel)

\* ------------------------------------------------------------- geometry
isMobile == innerWidth < MobileBreakpoint
containerWidth == innerWidth
getCardWidth ==
  IF isMobile THEN Min(MobileMaxWidth, containerWidth) - CardMargin
  ELSE Min(containerWidth - CardMargin, DesktopMaxCard)
\* the slide distance without the gap between two cards
getSlideDistance_NoGap ==
  IF isMobile THEN getCardWidth
  ELSE (innerWidth \div 2) + (getCardWidth \div 2)

getSlideDistance ==
  IF isMobile THEN getCardWidth + SlideGap
  ELSE (innerWidth \div 2) + (getCardWidth \div 2)
transitionDuration == IF isMobile THEN MobileTransitionMs ELSE DesktopTransitionMs
EdgeZoneWidth == IF isMobile THEN MobileEdgeZone ELSE DesktopEdgeZone

\* progress is a fraction of the container width; it is kept as its
\* numerator in pixels, so progress 1 is containerWidth and 0 is 0
ProgressOne == containerWidth
DragProgressOf(offset) == Min(Abs(offset), containerWidth)

\* pointer positions used by the gestures
PointerXs == {10, 110, innerWidth - 10}

\* ------------------------------------------------------------ QuizApp
InitHost ==
  [currentIndex |-> 0, questions |-> <<>>, allQuestions |-> <<>>,
   loading |-> TRUE, selectedCategories |-> {},
   dragProgress |-> 0, targetCategory |-> "",
   logoSqueezeDirection |-> 0, isDraggingLogo |-> FALSE,
   isLogoAnimating |-> FALSE, lockedTransformOrigin |-> Null,
   initialIndexApplied |-> FALSE, crashed |-> FALSE]

\* props handed to QuizCard
hasNext(h) == h.currentIndex < Len(h.questions) - 1
hasPrev(h) == h.currentIndex > 0
currentQuestionProp(h) == h.questions[h.currentIndex + 1]
nextQuestionProp(h) == h.questions[h.currentIndex + 2]
prevQuestionProp(h) == h.questions[h.currentIndex]
IndexInRange(h) == h.currentIndex >= 0 /\ h.currentIndex <= Len(h.questions) - 1

\* nextQuestion / prevQuestion as captured by a timer: the bounds check reads
\* the index and length of the render that created the closure, the update
\* is applied to the index of the moment
nextQuestion(h, capIdx, capLen) ==
  IF capIdx < capLen - 1
  THEN [h EXCEPT !.currentIndex = @ + 1, !.dragProgress = 0, !.targetCategory = ""]
  ELSE h

prevQuestion(h, capIdx) ==
  IF capIdx > 0
  THEN [h EXCEPT !.currentIndex = @ - 1, !.dragProgress = 0, !.targetCategory = ""]
  ELSE h

\* ------------------------------------------------------------- timers
Timer(kind, ms, idx, len, cat, dead) ==
  [kind |-> kind, dur |-> ms,
   idx |-> idx, len |-> len, cat |-> cat, dead |-> dead]

\* setTimeout(() => onSwipeLeft() / onSwipeRight(), transitionDuration)
CommitTimer(kind, h) == Timer(kind, transitionDuration, h.currentIndex, Len(h.questions), "", FALSE)
\* setTimeout(() => { setDragOffset(0); setTimeout(..., 300) }, 0)
SnapTimer(h) == Timer("snap0", 0, 0, 0, currentQuestionProp(h).category, FALSE)
SnapTimer2(t) == Timer("snap2", SnapBackMs, 0, 0, t.cat, t.dead)
\* logoResetTimeoutRef.current = setTimeout(..., transitionDuration)
LogoTimer == Timer("logo", transitionDuration, 0, 0, "", FALSE)

CommitKinds == {"onSwipeLeft", "onSwipeRight"}
SnapKinds == {"snap0", "snap2"}

CountKinds(ts, kinds) == Cardinality({i \in 1..Len(ts) : ts[i].kind \in kinds})

RemoveAt(ts, i) == [j \in 1..(Len(ts) - 1) |-> IF j < i THEN ts[j] ELSE ts[j + 1]]

RECURSIVE ClearLogo(_)
ClearLogo(ts) ==
  IF ts = <<>> THEN <<>>
  ELSE IF Head(ts).kind = "logo" THEN ClearLogo(Tail(ts))
       ELSE <<Head(ts)>> \o ClearLogo(Tail(ts))

\* the callbacks of an unmounted card keep running, their setState calls
\* on the card are no-ops
Orphan(ts) == [i \in 1..Len(ts) |-> IF ts[i].kind = "logo" THEN ts[i] ELSE [ts[i] EXCEPT !.dead = TRUE]]

\* ----------------------------------------------------- handleDragStateChange
handleDragStateChange(w, dragging, progress, category, direction) ==
  LET h0 == [w.h EXCEPT !.dragProgress = progress, !.targetCategory = category,
                        !.isDraggingLogo = dragging]
      n1 == Append(w.n, [isDragging |-> dragging, progress |-> progress,
                         targetCategory |-> category, direction |-> direction])
  IN IF progress > 0 THEN
       LET h1 == [h0 EXCEPT !.logoSqueezeDirection = direction,
                            !.lockedTransformOrigin =
                               IF w.h.lockedTransformOrigin = Null
                               THEN (IF direction > 0 THEN "left" ELSE "right")
                               ELSE @]
       IN IF ~dragging /\ progress = ProgressOne
          THEN [w EXCEPT !.h = [h1 EXCEPT !.isLogoAnimating = TRUE],
                         !.t = Append(ClearLogo(w.t), LogoTimer),
                         !.n = n1]
          ELSE [w EXCEPT !.h = h1, !.n = n1]
     ELSE IF ~dragging
          THEN [w EXCEPT !.h = [h0 EXCEPT !.logoSqueezeDirection = 0,
                                          !.lockedTransformOrigin = Null],
                         !.n = n1]
          ELSE [w EXCEPT !.h = h0, !.n = n1]

logoReset(w) ==
  [w EXCEPT !.h = [w.h EXCEPT !.isLogoAnimating = FALSE, !.dragProgress = 0,
                              !.logoSqueezeDirection = 0, !.lockedTransformOrigin = Null]]

\* ------------------------------------------------------------ QuizCard
FreshCard(idx) ==
  [mounted |-> TRUE, isDragging |-> FALSE, dragOffset |-> 0,
   isTransitioning |-> FALSE, transitionDirection |-> Null, startX |-> 0,
   skipTransition |-> FALSE, prevQuestionIndexRef |-> idx, rafFrames |-> 0]

NoCard == [FreshCard(0) EXCEPT !.mounted = FALSE]

handleStart(w, clientX) ==
  [w EXCEPT !.c = [w.c EXCEPT !.isDragging = TRUE, !.startX = clientX, !.dragOffset = 0],
            !.o = "start", !.x = clientX]

\* the move that takes the pointer position for the offset
handleMove_Absolute(w, clientX) ==
  IF ~w.c.isDragging THEN [w EXCEPT !.o = "ignored"]
  ELSE LET offset == clientX
           targetCategory ==
             IF offset < 0 /\ hasNext(w.h) THEN nextQuestionProp(w.h).category
             ELSE IF offset > 0 /\ hasPrev(w.h) THEN prevQuestionProp(w.h).category
             ELSE currentQuestionProp(w.h).category
           direction == IF offset < 0 THEN -1 ELSE IF offset > 0 THEN 1 ELSE 0
           w1 == [w EXCEPT !.c = [w.c EXCEPT !.dragOffset = offset], !.o = "move",
                           !.x = clientX]
       IN handleDragStateChange(w1, TRUE, DragProgressOf(offset), targetCategory, direction)

handleMove(w, clientX) ==
  IF ~w.c.isDragging THEN [w EXCEPT !.o = "ignored"]
  ELSE LET offset == clientX - w.c.startX
           targetCategory ==
             IF offset < 0 /\ hasNext(w.h) THEN nextQuestionProp(w.h).category
             ELSE IF offset > 0 /\ hasPrev(w.h) THEN prevQuestionProp(w.h).category
             ELSE currentQuestionProp(w.h).category
           direction == IF offset < 0 THEN -1 ELSE IF offset > 0 THEN 1 ELSE 0
           w1 == [w EXCEPT !.c = [w.c EXCEPT !.dragOffset = offset], !.o = "move",
                           !.x = clientX]
       IN handleDragStateChange(w1, TRUE, DragProgressOf(offset), targetCategory, direction)

\* the commit that never clears the dragging flag
commitLeft_KeepDragging(w, clearDrag) ==
  LET c1 == [w.c EXCEPT !.isTransitioning = TRUE, !.transitionDirection = "left",
                        !.dragOffset = -getSlideDistance]
      w1 == handleDragStateChange([w EXCEPT !.c = c1, !.o = "commitLeft"],
                                  FALSE, ProgressOne, nextQuestionProp(w.h).category, -1)
  IN [w1 EXCEPT !.t = Append(w1.t, CommitTimer("onSwipeLeft", w.h))]

\* the commit shared by drag release, arrow key and edge tap
commitLeft(w, clearDrag) ==
  LET c1 == [w.c EXCEPT !.isTransitioning = TRUE, !.transitionDirection = "left",
                        !.isDragging = IF clearDrag THEN FALSE ELSE @,
                        !.dragOffset = -getSlideDistance]
      w1 == handleDragStateChange([w EXCEPT !.c = c1, !.o = "commitLeft"],
                                  FALSE, ProgressOne, nextQuestionProp(w.h).category, -1)
  IN [w1 EXCEPT !.t = Append(w1.t, CommitTimer("onSwipeLeft", w.h))]

\* the commit that reports the category of the record being left
commitRight_CurrentCategory(w, clearDrag) ==
  LET c1 == [w.c EXCEPT !.isTransitioning = TRUE, !.transitionDirection = "right",
                        !.isDragging = IF clearDrag THEN FALSE ELSE @,
                        !.dragOffset = getSlideDistance]
      w1 == handleDragStateChange([w EXCEPT !.c = c1, !.o = "commitRight"],
                                  FALSE, ProgressOne, currentQuestionProp(w.h).category, 1)
  IN [w1 EXCEPT !.t = Append(w1.t, CommitTimer("onSwipeRight", w.h))]

commitRight(w, clearDrag) ==
  LET c1 == [w.c EXCEPT !.isTransitioning = TRUE, !.transitionDirection = "right",
                        !.isDragging = IF clearDrag THEN FALSE ELSE @,
                        !.dragOffset = getSlideDistance]
      w1 == handleDragStateChange([w EXCEPT !.c = c1, !.o = "commitRight"],
                                  FALSE, ProgressOne, prevQuestionProp(w.h).category, 1)
  IN [w1 EXCEPT !.t = Append(w1.t, CommitTimer("onSwipeRight", w.h))]

\* the snap-back that leaves the card in its dragging state
snapBack_KeepDragging(w) ==
  [w EXCEPT !.c = [w.c EXCEPT !.isTransitioning = TRUE],
            !.t = Append(w.t, SnapTimer(w.h)),
            !.o = "snapBack"]

snapBack(w) ==
  [w EXCEPT !.c = [w.c EXCEPT !.isTransitioning = TRUE, !.isDragging = FALSE],
            !.t = Append(w.t, SnapTimer(w.h)),
            !.o = "snapBack"]

\* the comparison without Math.abs
ExceedsThreshold_Signed(offset) == offset > dragThreshold

ExceedsThreshold(offset) == Abs(offset) > dragThreshold

\* the release without the sign test of the second branch
handleEnd_Unsigned(w) ==
  IF ~w.c.isDragging \/ ~w.c.mounted THEN [w EXCEPT !.o = "ignored"]
  ELSE IF ExceedsThreshold(w.c.dragOffset) /\ w.c.dragOffset < 0 /\ hasNext(w.h)
       THEN commitLeft(w, TRUE)
  ELSE IF ExceedsThreshold(w.c.dragOffset) /\ hasPrev(w.h)
       THEN commitRight(w, TRUE)
  ELSE snapBack(w)

handleEnd(w) ==
  IF ~w.c.isDragging \/ ~w.c.mounted THEN [w EXCEPT !.o = "ignored"]
  ELSE IF ExceedsThreshold(w.c.dragOffset) /\ w.c.dragOffset < 0 /\ hasNext(w.h)
       THEN commitLeft(w, TRUE)
  ELSE IF ExceedsThreshold(w.c.dragOffset) /\ w.c.dragOffset > 0 /\ hasPrev(w.h)
       THEN commitRight(w, TRUE)
  ELSE snapBack(w)

\* the container without a mouse-leave handler
onMouseLeave_Ignore(w) == [w EXCEPT !.o = "ignored"]

onMouseLeave(w) ==
  IF w.c.isDragging THEN handleEnd(w) ELSE [w EXCEPT !.o = "ignored"]

handleKeyDown(w, key) ==
  IF w.c.isTransitioning THEN [w EXCEPT !.o = "ignored"]
  ELSE IF key = "ArrowLeft" /\ hasPrev(w.h) THEN commitRight(w, FALSE)
  ELSE IF key = "ArrowRight" /\ hasNext(w.h) THEN commitLeft(w, FALSE)
  ELSE [w EXCEPT !.o = "ignored"]

\* onTouchEnd / onClick of an edge click zone
edgeZoneActivate(w, side) ==
  IF w.c.isTransitioning THEN [w EXCEPT !.o = "ignored"]
  ELSE IF side = "L" THEN commitRight(w, FALSE)
  ELSE commitLeft(w, FALSE)

\* which element of the card container lies under x in the current render
zoneAt(h, x) ==
  IF x < EdgeZoneWidth /\ hasPrev(h) THEN "L"
  ELSE IF x >= containerWidth - EdgeZoneWidth /\ hasNext(h) THEN "R"
  ELSE "card"

zoneRendered(h, side) == IF side = "L" THEN hasPrev(h) ELSE hasNext(h)

\* ------------------------------------------------- render and effects
\* useLayoutEffect on questionIndex, and the skipTransition effect that
\* starts the two-frame chain
\* the reset in a passive effect, without disabling the CSS transitions
layoutEffect_KeepTransitions(c, idx) ==
  [c EXCEPT !.dragOffset = 0, !.isTransitioning = FALSE,
            !.transitionDirection = Null, !.prevQuestionIndexRef = idx]

layoutEffect(c, idx) ==
  [c EXCEPT !.skipTransition = TRUE, !.dragOffset = 0, !.isTransitioning = FALSE,
            !.transitionDirection = Null, !.prevQuestionIndexRef = idx,
            !.rafFrames = IF c.skipTransition THEN @ ELSE 2]

Render(w) ==
  LET h == w.h
      showCard == ~h.loading /\ Len(h.questions) > 0
  IN IF h.crashed THEN w
     ELSE IF ~h.loading /\ Len(h.questions) > 0 /\ ~IndexInRange(h)
          THEN \* questions[currentIndex] is undefined: the render throws
               [w EXCEPT !.h.crashed = TRUE, !.c = NoCard, !.t = <<>>]
     ELSE IF ~showCard
          THEN IF w.c.mounted THEN [w EXCEPT !.c = NoCard, !.t = Orphan(w.t)] ELSE w
     ELSE IF ~w.c.mounted
          THEN [w EXCEPT !.c = FreshCard(h.currentIndex)]
     ELSE IF w.c.prevQuestionIndexRef # h.currentIndex
          THEN \* render with the new index, layout effect, render again
               [w EXCEPT !.c = layoutEffect(w.c, h.currentIndex),
                         !.u = w.u \o <<"recompute", "reset", "recompute">>]
     ELSE w

\* ---------------------------------------------------------------- state
Cur == [h |-> host, c |-> card, t |-> timers, n |-> <<>>, o |-> "", k |-> "none", u |-> <<>>, x |-> 0]

WithinCaps(w) ==
  /\ CountKinds(w.t, CommitKinds) <= MaxCommitTimers
  /\ CountKinds(w.t, SnapKinds) <= MaxSnapTimers

Step(w, op, key) ==
  /\ WithinCaps(w)
  /\ host' = w.h
  /\ card' = w.c
  /\ timers' = w.t
  /\ notes' = w.n
  /\ search' = search
  /\ UNCHANGED <<motion, call>>
  /\ last' = [op |-> op, key |-> key, out |-> w.o, click |-> w.k, seq |-> w.u, x |-> w.x]

Alive == card.mounted /\ ~host.crashed

\* the q parameter of the page URL: absent, or a decimal index
NoParam == [kind |-> "none", n |-> 0]
QParams == {NoParam} \cup {[kind |-> "num", n |-> n] : n \in {1, NumQuestions}}

Init ==
  /\ host = InitHost
  /\ card = NoCard
  /\ timers = <<>>
  /\ pointer = "none"
  /\ innerWidth \in {2 * MobileHalfWidth}
  /\ search \in QParams
  /\ notes = <<>>
  /\ last = [op |-> "init", key |-> "", out |-> "", click |-> "none", seq |-> <<>>, x |-> 0]
  /\ motion = NoMotion
  /\ call = NoCall

\* ------------------------------------------------------ host actions
\* the deep-link effect without its initialIndexApplied guard
deepLinkEffect_Reapply(h, q) ==
  IF Len(h.questions) = 0 THEN h
  ELSE IF q.kind = "none" THEN [h EXCEPT !.initialIndexApplied = TRUE]
  ELSE IF q.n >= 0 /\ q.n < Len(h.questions)
       THEN [h EXCEPT !.currentIndex = q.n, !.initialIndexApplied = TRUE]
       ELSE [h EXCEPT !.initialIndexApplied = TRUE]

\* effect [questions, initialIndexApplied]: apply the deep link once
deepLinkEffect(h, q) ==
  IF h.initialIndexApplied \/ Len(h.questions) = 0 THEN h
  ELSE IF q.kind = "none" THEN [h EXCEPT !.initialIndexApplied = TRUE]
  ELSE LET targetIndex == IF q.n >= 0 /\ q.n < Len(h.questions) THEN q.n ELSE -1
       IN IF targetIndex >= 0 /\ targetIndex < Len(h.questions)
          THEN [h EXCEPT !.currentIndex = targetIndex, !.initialIndexApplied = TRUE]
          ELSE [h EXCEPT !.initialIndexApplied = TRUE]

\* the filter that leaves the active index where it is
filterEffect_KeepIndex(h) ==
  IF h.selectedCategories = {} THEN [h EXCEPT !.questions = <<>>]
  ELSE [h EXCEPT !.questions = Filter(h.allQuestions, h.selectedCategories)]

\* effect [selectedCategories, allQuestions]: filter the sequence
filterEffect(h) ==
  IF h.selectedCategories = {} THEN [h EXCEPT !.questions = <<>>]
  ELSE [h EXCEPT !.questions = Filter(h.allQuestions, h.selectedCategories),
                 !.currentIndex = IF h.initialIndexApplied THEN 0 ELSE @]

\* fetchQuestions resolves with a non-empty list
FetchDone ==
  /\ host.loading /\ host.allQuestions = <<>>
  /\ LET h1 == [host EXCEPT !.allQuestions = LoadedQuestions,
                            !.questions = LoadedQuestions,
                            !.selectedCategories = Categories]
         h2 == deepLinkEffect(filterEffect(h1), search)
     IN Step(Render([Cur EXCEPT !.h = h2, !.o = search.kind]), "FetchDone", "")
  /\ UNCHANGED <<pointer, innerWidth>>

\* the timeout of the finally block of fetchQuestions
LoadingDone ==
  /\ host.loading /\ host.allQuestions # <<>>
  /\ Step(Render([Cur EXCEPT !.h.loading = FALSE]), "LoadingDone", "")
  /\ UNCHANGED <<pointer, innerWidth>>

\* handleCategoriesChange, called when the category dialog closes
SetCategories ==
  /\ ~host.loading /\ ~host.crashed
  /\ \E sel \in SUBSET Categories :
       LET h1 == deepLinkEffect(filterEffect([host EXCEPT !.selectedCategories = sel]), search)
       IN Step(Render([Cur EXCEPT !.h = h1]), "SetCategories", "")
  /\ UNCHANGED <<pointer, innerWidth>>

\* ---------------------------------------------------- pointer actions
MouseDown ==
  /\ Alive /\ pointer = "none"
  /\ \E x \in PointerXs :
       /\ Step(Render(handleStart(Cur, x)), "MouseDown", "")
       /\ pointer' = CASE zoneAt(host, x) = "L" -> "mouseL"
                       [] zoneAt(host, x) = "R" -> "mouseR"
                       [] OTHER -> "mouseCard"
  /\ UNCHANGED innerWidth

MouseMove ==
  /\ Alive /\ pointer \in {"none", "mouseCard", "mouseL", "mouseR"}
  /\ \E x \in PointerXs : Step(Render(handleMove(Cur, x)), "MouseMove", "")
  /\ pointer' = IF pointer = "none" THEN "none" ELSE "mouseCard"
  /\ UNCHANGED innerWidth

\* mouseup bubbles to the container; when the button went down and up on
\* an edge zone the browser then dispatches click to that zone
MouseUp ==
  /\ Alive /\ pointer \in {"mouseCard", "mouseL", "mouseR"}
  /\ LET w1 == Render(handleEnd(Cur))
         side == IF pointer = "mouseL" THEN "L" ELSE "R"
         w2 == IF pointer # "mouseCard" /\ w1.c.mounted /\ zoneRendered(w1.h, side)
               THEN LET wc == edgeZoneActivate(w1, side)
                    IN [wc EXCEPT !.o = w1.o, !.k = wc.o]
               ELSE w1
     IN Step(Render(w2), "MouseUp", "")
  /\ pointer' = "none"
  /\ UNCHANGED innerWidth

MouseLeave ==
  /\ Alive /\ pointer \in {"none", "mouseCard", "mouseL", "mouseR"}
  /\ Step(Render(onMouseLeave(Cur)), "MouseLeave", "")
  /\ pointer' = "none"
  /\ UNCHANGED innerWidth

\* touchstart on an edge zone stops at the zone
TouchStart ==
  /\ Alive /\ pointer = "none"
  /\ \E x \in PointerXs :
       /\ Step(Render(IF zoneAt(host, x) = "card" THEN handleStart(Cur, x)
                      ELSE [Cur EXCEPT !.o = "stopped"]), "TouchStart", "")
       /\ pointer' = CASE zoneAt(host, x) = "L" -> "touchL"
                       [] zoneAt(host, x) = "R" -> "touchR"
                       [] OTHER -> "touchCard"
  /\ UNCHANGED innerWidth

TouchMove ==
  /\ Alive /\ pointer \in {"touchCard", "touchL", "touchR"}
  /\ \E x \in PointerXs : Step(Render(handleMove(Cur, x)), "TouchMove", "")
  /\ UNCHANGED <<pointer, innerWidth>>

\* touchend goes to the element the finger went down on
TouchEnd ==
  /\ Alive /\ pointer \in {"touchCard", "touchL", "touchR"}
  /\ LET side == IF pointer = "touchL" THEN "L" ELSE "R"
         w1 == IF pointer = "touchCard" THEN handleEnd(Cur)
               ELSE IF zoneRendered(host, side)
                    THEN LET wc == edgeZoneActivate(Cur, side)
                         IN [wc EXCEPT !.o = "tap", !.k = wc.o]
               ELSE [Cur EXCEPT !.o = "ignored"]
     IN Step(Render(w1), "TouchEnd", "")
  /\ pointer' = "none"
  /\ UNCHANGED innerWidth

KeyDown ==
  /\ Alive
  /\ \E key \in {"ArrowLeft", "ArrowRight"} :
       Step(Render(handleKeyDown(Cur, key)), "KeyDown", key)
  /\ UNCHANGED <<pointer, innerWidth>>

\* ------------------------------------------------------ timer actions
\* a timer runs after every earlier scheduled timer of equal or shorter delay
CanFire(i) == \A j \in 1..(i - 1) : timers[j].dur > timers[i].dur

\* the host update preceded by a reset of the card's transient state
indexUpdate_ResetFirst(w, h1, out) ==
  [w EXCEPT !.h = h1, !.o = out,
            !.c = [w.c EXCEPT !.dragOffset = 0, !.isTransitioning = FALSE,
                              !.transitionDirection = Null],
            !.u = IF h1.currentIndex # w.h.currentIndex
                  THEN w.u \o <<"reset", "index">> ELSE w.u]

\* onSwipeLeft / onSwipeRight: the host state update of a commit
indexUpdate(w, h1, out) ==
  [w EXCEPT !.h = h1, !.o = out,
            !.u = IF h1.currentIndex # w.h.currentIndex THEN Append(w.u, "index") ELSE w.u]

timerCallback(w, t) ==
  CASE t.kind = "onSwipeLeft" -> indexUpdate(w, nextQuestion(w.h, t.idx, t.len), "onSwipeLeft")
    [] t.kind = "onSwipeRight" -> indexUpdate(w, prevQuestion(w.h, t.idx), "onSwipeRight")
    [] t.kind = "snap0" ->
         [w EXCEPT !.c = IF t.dead THEN @ ELSE [@ EXCEPT !.dragOffset = 0],
                   !.t = Append(w.t, SnapTimer2(t)),
                   !.o = "snap0"]
    [] t.kind = "snap2" ->
         handleDragStateChange(
           [w EXCEPT !.c = IF t.dead THEN @
                           ELSE [@ EXCEPT !.isTransitioning = FALSE,
                                          !.transitionDirection = Null],
                     !.o = "snap2"],
           FALSE, 0, t.cat, 0)
    [] OTHER -> [logoReset(w) EXCEPT !.o = "logo"]

FireTimer ==
  /\ ~host.crashed
  /\ \E i \in 1..Len(timers) :
       /\ CanFire(i)
       /\ Step(Render(timerCallback([Cur EXCEPT !.t = RemoveAt(timers, i)], timers[i])),
               "FireTimer", "")
  /\ UNCHANGED <<pointer, innerWidth>>

\* requestAnimationFrame chain that re-enables CSS transitions
RafFrame ==
  /\ Alive /\ card.rafFrames > 0
  /\ card' = [card EXCEPT !.rafFrames = @ - 1,
                          !.skipTransition = IF card.rafFrames = 1 THEN FALSE ELSE @]
  /\ notes' = <<>>
  /\ last' = [op |-> "RafFrame", key |-> "", out |-> "", click |-> "none", seq |-> <<>>, x |-> 0]
  /\ UNCHANGED <<host, timers, pointer, innerWidth, search, motion, call>>

\* navigation: loading, gestures, keys and timers
Next ==
  \/ FetchDone \/ LoadingDone
  \/ MouseDown \/ MouseMove \/ MouseUp \/ MouseLeave
  \/ TouchStart \/ TouchMove \/ TouchEnd
  \/ KeyDown
  \/ FireTimer

Spec == Init /\ [][Next]_vars

\* navigation together with the animation frames of the browser
NextPaint == Next \/ RafFrame

\* painting never reads the q parameter: the page is opened without one
InitPaint == Init /\ search = NoParam
SpecPaint == InitPaint /\ [][NextPaint]_vars

\* keyboard navigation together with the category filter
NextFilter == FetchDone \/ LoadingDone \/ SetCategories \/ KeyDown \/ FireTimer

SpecFilter == Init /\ [][NextFilter]_vars

\* mouse navigation in which every pending timer eventually runs and every
\* drag in progress is eventually released
DragRelease == card.isDragging /\ MouseUp

NextLive == FetchDone \/ LoadingDone \/ MouseDown \/ MouseMove \/ MouseUp \/ FireTimer

SpecLive == Init /\ [][NextLive]_vars /\ WF_vars(FireTimer) /\ SF_vars(DragRelease)

\* ------------------------------------------------------------ strings
\* a string is a sequence of characters
Digits == {"0", "1", "2", "3", "4", "5", "6", "7", "8", "9"}

DigitVal(c) ==
  CASE c = "0" -> 0 [] c = "1" -> 1 [] c = "2" -> 2 [] c = "3" -> 3
    [] c = "4" -> 4 [] c = "5" -> 5 [] c = "6" -> 6 [] c = "7" -> 7
    [] c = "8" -> 8 [] c = "9" -> 9

\* the letters that have two cases
LowerAlphabet ==
  <<"a", "b", "c", "d", "e", "f", "g", "h", "i", "j", "k", "l", "m",
    "n", "o", "p", "q", "r", "s", "t", "u", "v", "w", "x", "y", "z",
    "ä", "ö", "ü">>
UpperAlphabet ==
  <<"A", "B", "C", "D", "E", "F", "G", "H", "I", "J", "K", "L", "M",
    "N", "O", "P", "Q", "R", "S", "T", "U", "V", "W", "X", "Y", "Z",
    "Ä", "Ö", "Ü">>

PositionIn(alphabet, c) == CHOOSE i \in DOMAIN alphabet : alphabet[i] = c
InAlphabet(alphabet, c) == \E i \in DOMAIN alphabet : alphabet[i] = c

toUpperCaseChar(c) ==
  IF InAlphabet(LowerAlphabet, c) THEN UpperAlphabet[PositionIn(LowerAlphabet, c)] ELSE c
toLowerCaseChar(c) ==
  IF InAlphabet(UpperAlphabet, c) THEN LowerAlphabet[PositionIn(UpperAlphabet, c)] ELSE c

\* String.prototype.toUpperCase and toLowerCase
toUpperCase(word) == [i \in DOMAIN word |-> toUpperCaseChar(word[i])]
toLowerCase(word) == [i \in DOMAIN word |-> toLowerCaseChar(word[i])]

\* the characters matched by \s
IsSpace(c) == c \in {" ", "\t", "\n"}

StringsUpTo(chars, n) == UNION {[1..k -> chars] : k \in 0..n}

Front(s) == SubSeq(s, 1, Len(s) - 1)

RECURSIVE TrimStart(_)
TrimStart(s) ==
  IF s # <<>> /\ IsSpace(Head(s)) THEN TrimStart(Tail(s)) ELSE s

RECURSIVE TrimEnd(_)
TrimEnd(s) ==
  IF s # <<>> /\ IsSpace(s[Len(s)]) THEN TrimEnd(Front(s)) ELSE s

\* String.prototype.trim
trim(s) == TrimEnd(TrimStart(s))

RECURSIVE DigitPrefix(_)
DigitPrefix(s) ==
  IF s # <<>> /\ Head(s) \in Digits THEN <<Head(s)>> \o DigitPrefix(Tail(s))
  ELSE <<>>

RECURSIVE DecimalValue(_)
DecimalValue(ds) ==
  IF ds = <<>> THEN 0 ELSE 10 * DecimalValue(Front(ds)) + DigitVal(ds[Len(ds)])

\* parseInt(s, 10): leading white space is skipped, a sign is read, then the
\* longest run of digits; whatever follows the digits is ignored
parseInt(s) ==
  LET t == TrimStart(s)
      signed == t # <<>> /\ Head(t) \in {"+", "-"}
      body == IF signed THEN Tail(t) ELSE t
      ds == DigitPrefix(body)
  IN IF ds = <<>> THEN [nan |-> TRUE, val |-> 0]
     ELSE [nan |-> FALSE,
           val |-> IF signed /\ Head(t) = "-" THEN -DecimalValue(ds)
                   ELSE DecimalValue(ds)]

\* ------------------------------------------------- deep-link resolution
MaxTextLen == 2
MaxQLen == 3
TextChars == {"1", "a"}
QChars == {"1", "a", " "}

\* questions.findIndex(q => q.question.trim() === normalized), zero-based
RECURSIVE findIndexFrom(_, _, _)
findIndexFrom(texts, normalized, i) ==
  IF i > Len(texts) THEN -1
  ELSE IF trim(texts[i]) = normalized THEN i - 1
  ELSE findIndexFrom(texts, normalized, i + 1)

\* !Number.isNaN(numeric) && numeric >= 0 && numeric < questions.length
numericIndex(qParam, length) ==
  LET numeric == parseInt(qParam)
  IN ~numeric.nan /\ numeric.val >= 0 /\ numeric.val < length

\* targetIndex of the deep-link effect for a non-empty q parameter
deepLinkTarget(texts, qParam) ==
  IF numericIndex(qParam, Len(texts)) THEN parseInt(qParam).val
  ELSE findIndexFrom(texts, trim(qParam), 1)

\* the active index after the deep-link effect ran on the loaded sequence
deepLinkIndex(texts, qParam) ==
  IF qParam = <<>> THEN 0
  ELSE LET targetIndex == deepLinkTarget(texts, qParam)
       IN IF targetIndex >= 0 /\ targetIndex < Len(texts) THEN targetIndex ELSE 0

\* the page before anything is loaded
Quiet ==
  /\ host = InitHost
  /\ card = NoCard
  /\ timers = <<>>
  /\ pointer = "none"
  /\ innerWidth \in {2 * MobileHalfWidth}
  /\ search = NoParam
  /\ notes = <<>>
  /\ last = [op |-> "init", key |-> "", out |-> "", click |-> "none", seq |-> <<>>, x |-> 0]

Pending(fn, args) == {[fn |-> fn, arg |-> a, res |-> <<>>, done |-> FALSE] : a \in args}

\* loaded question texts (trimmed by the parser, never empty) and a q parameter
DeepLinkTexts == StringsUpTo(TextChars, MaxTextLen) \ {<<>>}
DeepLinkInputs ==
  [texts : [1..NumQuestions -> DeepLinkTexts], q : StringsUpTo(QChars, MaxQLen)]

InitDeepLink == Quiet /\ motion = NoMotion /\ call \in Pending("deepLink", DeepLinkInputs)

ResolveDeepLink ==
  /\ call.fn = "deepLink" /\ ~call.done
  /\ call' = [call EXCEPT !.res = deepLinkIndex(call.arg.texts, call.arg.q),
                          !.done = TRUE]
  /\ UNCHANGED <<navVars, motion>>

NextDeepLink == ResolveDeepLink

SpecDeepLink == InitDeepLink /\ [][NextDeepLink]_vars

\* ------------------------------------------------------ useMotion hook
\* motion.frames are the requestAnimationFrame callbacks not yet run, by id;
\* motion.recent is the value delivered by the most recent sensor event;
\* motion.y is kept in units of 1 / YScale so that smoothing stays exact
MaxMotionFrames == 3
YScale == 5 ^ MaxMotionFrames

clamp(value, min, max) == IF value < min THEN min ELSE IF value > max THEN max ELSE value

\* smooth(prev, next, 0.2) = prev + (next - prev) * 0.2
smooth(prev, next) == prev + (next * YScale - prev) \div 5

\* accelerationIncludingGravity.y and beta as delivered by the sensors
NoReading == [isNumber |-> FALSE, v |-> 0]
Reading(v) == [isNumber |-> TRUE, v |-> v]
AccelerationYs == {Reading(-20), Reading(0), Reading(5), NoReading}
Betas == {Reading(-100), Reading(0), Reading(40), NoReading}

\* scheduleUpdate that requests a frame for every event
scheduleUpdate_NoThrottle(m) ==
  [m EXCEPT !.ticking = TRUE, !.rafId = m.nextId,
            !.frames = Append(m.frames, m.nextId), !.nextId = m.nextId + 1,
            !.coalesced = FALSE]

scheduleUpdate(m) ==
  IF m.ticking THEN [m EXCEPT !.coalesced = TRUE]
  ELSE [m EXCEPT !.ticking = TRUE, !.rafId = m.nextId,
                 !.frames = Append(m.frames, m.nextId), !.nextId = m.nextId + 1,
                 !.coalesced = FALSE]

handleDeviceMotion(m, ay) ==
  IF ~ay.isNumber THEN [m EXCEPT !.op = "ignored"]
  ELSE scheduleUpdate([m EXCEPT !.latestYRef = clamp(-ay.v * 4, -40, 40),
                                !.recent = clamp(-ay.v * 4, -40, 40),
                                !.op = "event"])

handleDeviceOrientation(m, beta) ==
  IF ~beta.isNumber THEN [m EXCEPT !.op = "ignored"]
  ELSE scheduleUpdate([m EXCEPT !.latestYRef = clamp(-(beta.v \div 2), -40, 40),
                                !.recent = clamp(-(beta.v \div 2), -40, 40),
                                !.op = "event"])

\* cancelAnimationFrame(id)
cancelAnimationFrame(frames, id) == SelectSeq(frames, LAMBDA f : f # id)

removeListeners(m) ==
  [m EXCEPT !.listening = FALSE,
            !.frames = IF m.rafId # 0 THEN cancelAnimationFrame(m.frames, m.rafId) ELSE @,
            !.ticking = FALSE]

MotionStep(m) == motion' = m /\ UNCHANGED <<navVars, call>>

\* the mount effect
MotionMount ==
  /\ motion.phase = "init"
  /\ MotionStep([motion EXCEPT !.phase = "mounted", !.op = "mount"])

\* enable() is called from a user gesture and waits for the permission
MotionEnable ==
  /\ motion.phase = "mounted" /\ ~motion.enabling
  /\ MotionStep([motion EXCEPT !.enabling = TRUE, !.op = "enable"])

\* the permission request resolves, possibly after the unmount
MotionPermission ==
  /\ motion.enabling
  /\ \E granted \in BOOLEAN :
       MotionStep([motion EXCEPT !.enabling = FALSE,
                                 !.permission = IF granted THEN "granted" ELSE "denied",
                                 !.listening = IF granted THEN TRUE ELSE @,
                                 !.op = "permission"])

DeviceMotion ==
  /\ motion.listening /\ motion.nextId <= MaxMotionFrames
  /\ \E ay \in AccelerationYs : MotionStep(handleDeviceMotion(motion, ay))

DeviceOrientation ==
  /\ motion.listening /\ motion.nextId <= MaxMotionFrames
  /\ \E beta \in Betas : MotionStep(handleDeviceOrientation(motion, beta))

\* the browser runs the oldest requested frame callback
MotionFrame ==
  /\ motion.frames # <<>>
  /\ MotionStep([motion EXCEPT !.frames = Tail(@),
                               !.y = smooth(motion.y, motion.latestYRef),
                               !.ticking = FALSE, !.ran = @ + 1, !.op = "frame"])

\* the cleanup of the mount effect
MotionUnmount ==
  /\ motion.phase = "mounted"
  /\ MotionStep([removeListeners(motion) EXCEPT !.phase = "unmounted", !.op = "unmount"])

InitMotion == Quiet /\ motion = NoMotion /\ call = NoCall

NextMotion ==
  \/ MotionMount \/ MotionEnable \/ MotionPermission
  \/ DeviceMotion \/ DeviceOrientation
  \/ MotionFrame \/ MotionUnmount

SpecMotion == InitMotion /\ [][NextMotion]_vars

\* ---------------------------------------------------------- hyphenation
\* the words are written with the letters "a" and "A", the punctuation
\* mark "?", the digit "1", the symbol "€", the hyphen and SoftHyphen (U+00AD)
MinWordLength == 6
DefaultBufferPx == 16
CharWidthPx == 10
MaxCoreLen == 6

SoftHyphen == "SHY"
UpperLetters == {UpperAlphabet[i] : i \in DOMAIN UpperAlphabet}
SymbolChars == {"§", "$", "%", "€", "&", "@", "#"}

Contains(word, chars) == \E i \in DOMAIN word : word[i] \in chars

shouldExcludeWord(word) ==
  \/ Len(word) < MinWordLength
  \/ word = toUpperCase(word) /\ word # <<>> /\ \A i \in DOMAIN word : word[i] \in UpperLetters
  \/ Contains(word, Digits \cup SymbolChars)
  \/ Contains(word, {"-"})

\* canvas measureText: the advance widths add up, U+00AD has none;
\* 0 when the canvas has no 2D context
measureTextWidth(word, context) ==
  IF ~context THEN 0
  ELSE CharWidthPx * Cardinality({i \in DOMAIN word : word[i] # SoftHyphen})

RECURSIVE TakeWhile(_, _)
TakeWhile(str, space) ==
  IF str # <<>> /\ IsSpace(Head(str)) = space
  THEN <<Head(str)>> \o TakeWhile(Tail(str), space)
  ELSE <<>>

Drop(str, n) == SubSeq(str, n + 1, Len(str))

\* text.split(/(\s+)/): words and white-space runs alternate, starting with a
\* (possibly empty) word
RECURSIVE split(_)
split(text) ==
  LET word == TakeWhile(text, FALSE)
      rest == Drop(text, Len(word))
      gap == TakeWhile(rest, TRUE)
  IN IF rest = <<>> THEN <<word>>
     ELSE <<word, gap>> \o split(Drop(rest, Len(gap)))

RECURSIVE join(_, _)
join(parts, sep) ==
  IF parts = <<>> THEN <<>>
  ELSE IF Len(parts) = 1 THEN parts[1]
  ELSE parts[1] \o sep \o join(Tail(parts), sep)

\* hyphenator.hyphenate(word) of the hypher library: the word cut into
\* syllables at the break points the patterns give (cuts); a word that
\* already holds a soft hyphen comes back whole
RECURSIVE cutAt(_, _, _)
cutAt(word, cuts, from) ==
  LET next == {p \in cuts : p >= from /\ p < Len(word)}
  IN IF next = {} THEN <<SubSeq(word, from, Len(word))>>
     ELSE LET p == CHOOSE q \in next : \A r \in next : q <= r
          IN <<SubSeq(word, from, p)>> \o cutAt(word, cuts, p + 1)

hyphenate(word, cuts) ==
  IF Contains(word, {SoftHyphen}) THEN <<word>> ELSE cutAt(word, cuts, 1)

\* the callback with the fit test wordWidth < availableWidth
hyphenateWord_StrictFit(word, o) ==
  IF word # <<>> /\ \A i \in DOMAIN word : IsSpace(word[i]) THEN word
  ELSE IF shouldExcludeWord(word) THEN word
  ELSE IF measureTextWidth(word, o.context) < o.containerWidth - o.bufferPx THEN word
  ELSE join(hyphenate(word, o.cuts), <<SoftHyphen>>)

\* the callback cutting every word that is not excluded, measured or not,
\* soft hyphens included
hyphenateWord_AlwaysCut(word, o) ==
  IF word # <<>> /\ \A i \in DOMAIN word : IsSpace(word[i]) THEN word
  ELSE IF shouldExcludeWord(word) THEN word
  ELSE join(cutAt(word, o.cuts, 1), <<SoftHyphen>>)

\* the callback joining the syllables with a visible hyphen
hyphenateWord_HardHyphen(word, o) ==
  IF word # <<>> /\ \A i \in DOMAIN word : IsSpace(word[i]) THEN word
  ELSE IF shouldExcludeWord(word) THEN word
  ELSE IF measureTextWidth(word, o.context) <= o.containerWidth - o.bufferPx THEN word
  ELSE join(hyphenate(word, o.cuts), <<"-">>)

\* the callback of words.map
hyphenateWord(word, o) ==
  IF word # <<>> /\ \A i \in DOMAIN word : IsSpace(word[i]) THEN word
  ELSE IF shouldExcludeWord(word) THEN word
  ELSE IF measureTextWidth(word, o.context) <= o.containerWidth - o.bufferPx THEN word
  ELSE join(hyphenate(word, o.cuts), <<SoftHyphen>>)

mapWords(text, o) == [i \in DOMAIN split(text) |-> hyphenateWord(split(text)[i], o)]

applyGermanHyphenation(text, o) == join(mapWords(text, o), <<>>)

\* the question texts and option sets the function is applied to
Rep(c, k) == [i \in 1..k |-> c]
WordCores ==
  UNION {{Rep("a", k), Rep("A", k), <<"A">> \o Rep("a", k - 1)} : k \in 4..MaxCoreLen}
WordTails == {<<>>, <<"?">>, <<"1">>, <<"€">>, <<"-">>}
HyphenWords == {c \o t : c \in WordCores, t \in WordTails}
SecondWords == {Rep("a", 3), Rep("a", 7), Rep("A", 6)}
HyphenTexts ==
  HyphenWords
    \cup {<<" ">> \o w : w \in HyphenWords}
    \cup {w \o <<" ">> : w \in HyphenWords}
    \cup {w \o <<" ", " ">> \o v : w \in HyphenWords, v \in SecondWords}
    \cup {<<>>, Rep("a", 3) \o <<SoftHyphen>> \o Rep("a", 4)}
HyphenOptions ==
  [containerWidth : {10, 60, 2000}, bufferPx : {0, DefaultBufferPx},
   context : BOOLEAN, cuts : {{}, {2}, {3}, {2, 4}}]
HyphenInputs == [text : HyphenTexts, o : HyphenOptions]

InitHyphen == Quiet /\ motion = NoMotion /\ call \in Pending("hyphenate", HyphenInputs)

\* apply(text, options)
ApplyHyphenation ==
  /\ call.fn = "hyphenate" /\ ~call.done
  /\ call' = [call EXCEPT !.res = [parts |-> mapWords(call.arg.text, call.arg.o),
                                   out |-> applyGermanHyphenation(call.arg.text, call.arg.o),
                                   again |-> <<>>, twice |-> FALSE],
                          !.done = TRUE]
  /\ UNCHANGED <<navVars, motion>>

\* apply(apply(text, options), options)
ApplyHyphenationAgain ==
  /\ call.fn = "hyphenate" /\ call.done /\ ~call.res.twice
  /\ call' = [call EXCEPT !.res.again = applyGermanHyphenation(call.res.out, call.arg.o),
                          !.res.twice = TRUE]
  /\ UNCHANGED <<navVars, motion>>

NextHyphen == ApplyHyphenation \/ ApplyHyphenationAgain

SpecHyphen == InitHyphen /\ [][NextHyphen]_vars

\* --------------------------------------------------------------- colors
MaxSeed == 3
MaxEvaluations == 2
ProgressSteps == 4

DigitChar(d) == CHOOSE c \in Digits : DigitVal(c) = d

\* the decimal numeral of a natural number, as a template literal prints it
RECURSIVE ToDigits(_)
ToDigits(n) ==
  IF n < 10 THEN <<DigitChar(n)>> ELSE ToDigits(n \div 10) \o <<DigitChar(n % 10)>>

\* the string hsl(h, s%, l%), by its three numerals
Hsl(h, s, l) == [kind |-> "hsl", h |-> ToDigits(h), s |-> ToDigits(s), l |-> ToDigits(l)]

\* the cases of the switch of getCategoryColors, in source order
CardPalettes == <<
  [labels |-> {<<"f", "u", "c", "k">>},
   stripBg |-> Hsl(15, 100, 50), bodyBg |-> Hsl(15, 100, 50),
   cardFill |-> "rgba(150, 10, 10, 0.35)",
   layers |-> <<
     [builder |-> "flame", w |-> [src |-> "mainW", mul |-> 10], h |-> [src |-> "mainH", mul |-> 10],
        x |-> [src |-> "mainX", add |-> 0], y |-> [src |-> "mainY", add |-> 0],
        rgb |-> <<255, 60, 30>>, intensity |-> 85],
     [builder |-> "flame", w |-> [src |-> "secW", mul |-> 8], h |-> [src |-> "secH", mul |-> 10],
        x |-> [src |-> "secX", add |-> 10], y |-> [src |-> "secY", add |-> 0],
        rgb |-> <<255, 100, 50>>, intensity |-> 70],
     [builder |-> "flame", w |-> [src |-> "terW", mul |-> 6], h |-> [src |-> "terH", mul |-> 10],
        x |-> [src |-> "terX", add |-> -5], y |-> [src |-> "terY", add |-> 0],
        rgb |-> <<255, 40, 20>>, intensity |-> 75]>>],
  [labels |-> {<<"f", "r", "i", "e", "n", "d", "s">>, <<"w", "e", "r", " ", "a", "u", "s", " ", "d", "e", "r", " ", "r", "u", "n", "d", "e">>},
   stripBg |-> Hsl(278, 100, 57), bodyBg |-> Hsl(278, 100, 57),
   cardFill |-> "rgba(60, 180, 160, 0.15)",
   layers |-> <<
     [builder |-> "aura", w |-> [src |-> "mainW", mul |-> 10], h |-> [src |-> "mainH", mul |-> 10],
        x |-> [src |-> "mainX", add |-> 0], y |-> [src |-> "mainY", add |-> 0],
        rgb |-> <<100, 220, 200>>, intensity |-> 75],
     [builder |-> "aura", w |-> [src |-> "secW", mul |-> 10], h |-> [src |-> "secH", mul |-> 10],
        x |-> [src |-> "secX", add |-> 0], y |-> [src |-> "secY", add |-> 0],
        rgb |-> <<255, 80, 80>>, intensity |-> 55],
     [builder |-> "aura", w |-> [src |-> "terW", mul |-> 10], h |-> [src |-> "terH", mul |-> 10],
        x |-> [src |-> "terX", add |-> 0], y |-> [src |-> "terY", add |-> 0],
        rgb |-> <<100, 255, 150>>, intensity |-> 50]>>],
  [labels |-> {<<"s", "e", "l", "f", " ", "r", "e", "f", "l", "e", "c", "t", "i", "o", "n">>},
   stripBg |-> Hsl(290, 100, 50), bodyBg |-> Hsl(290, 100, 50),
   cardFill |-> "hsla(340, 100%, 35%, 0.12)",
   layers |-> <<
     [builder |-> "aura", w |-> [src |-> "mainW", mul |-> 10], h |-> [src |-> "mainH", mul |-> 10],
        x |-> [src |-> "mainX", add |-> 0], y |-> [src |-> "mainY", add |-> 0],
        rgb |-> <<255, 180, 120>>, intensity |-> 70],
     [builder |-> "aura", w |-> [src |-> "secW", mul |-> 10], h |-> [src |-> "secH", mul |-> 10],
        x |-> [src |-> "secX", add |-> 0], y |-> [src |-> "secY", add |-> 0],
        rgb |-> <<200, 100, 255>>, intensity |-> 60],
     [builder |-> "aura", w |-> [src |-> "terW", mul |-> 10], h |-> [src |-> "terH", mul |-> 10],
        x |-> [src |-> "terX", add |-> 0], y |-> [src |-> "terY", add |-> 0],
        rgb |-> <<255, 200, 100>>, intensity |-> 50]>>],
  [labels |-> {<<"p", "a", "r", "t", "y">>},
   stripBg |-> Hsl(300, 100, 50), bodyBg |-> Hsl(300, 100, 50),
   cardFill |-> "rgba(180, 30, 30, 0.18)",
   layers |-> <<
     [builder |-> "vertical", w |-> [src |-> "mainW", mul |-> 10], h |-> [src |-> "mainH", mul |-> 10],
        x |-> [src |-> "mainX", add |-> 0], y |-> [src |-> "mainY", add |-> 0],
        rgb |-> <<255, 30, 60>>, intensity |-> 75],
     [builder |-> "vertical", w |-> [src |-> "secW", mul |-> 10], h |-> [src |-> "secH", mul |-> 10],
        x |-> [src |-> "secX", add |-> 0], y |-> [src |-> "secY", add |-> 0],
        rgb |-> <<255, 50, 200>>, intensity |-> 65],
     [builder |-> "vertical", w |-> [src |-> "terW", mul |-> 10], h |-> [src |-> "terH", mul |-> 10],
        x |-> [src |-> "terX", add |-> 0], y |-> [src |-> "terY", add |-> 0],
        rgb |-> <<200, 30, 255>>, intensity |-> 60]>>],
  [labels |-> {<<"f", "a", "m", "i", "l", "y">>},
   stripBg |-> Hsl(328, 100, 56), bodyBg |-> Hsl(328, 100, 56),
   cardFill |-> "hsla(300, 100%, 60%, 0.10)",
   layers |-> <<
     [builder |-> "aura", w |-> [src |-> "mainW", mul |-> 10], h |-> [src |-> "mainH", mul |-> 10],
        x |-> [src |-> "mainX", add |-> 0], y |-> [src |-> "mainY", add |-> 0],
        rgb |-> <<255, 180, 200>>, intensity |-> 70],
     [builder |-> "aura", w |-> [src |-> "secW", mul |-> 10], h |-> [src |-> "secH", mul |-> 10],
        x |-> [src |-> "secX", add |-> 0], y |-> [src |-> "secY", add |-> 0],
        rgb |-> <<255, 100, 180>>, intensity |-> 55],
     [builder |-> "aura", w |-> [src |-> "terW", mul |-> 10], h |-> [src |-> "terH", mul |-> 10],
        x |-> [src |-> "terX", add |-> 0], y |-> [src |-> "terY", add |-> 0],
        rgb |-> <<200, 150, 255>>, intensity |-> 50]>>],
  [labels |-> {<<"c", "o", "n", "n", "e", "c", "t", "i", "o", "n">>},
   stripBg |-> Hsl(0, 100, 50), bodyBg |-> Hsl(0, 100, 50),
   cardFill |-> "rgba(90, 25, 45, 0.35)",
   layers |-> <<
     [builder |-> "aura", w |-> [src |-> "mainW", mul |-> 10], h |-> [src |-> "mainH", mul |-> 10],
        x |-> [src |-> "mainX", add |-> 0], y |-> [src |-> "mainY", add |-> 0],
        rgb |-> <<255, 80, 150>>, intensity |-> 72],
     [builder |-> "aura", w |-> [src |-> "secW", mul |-> 10], h |-> [src |-> "secH", mul |-> 10],
        x |-> [src |-> "secX", add |-> 0], y |-> [src |-> "secY", add |-> 0],
        rgb |-> <<255, 140, 50>>, intensity |-> 55],
     [builder |-> "aura", w |-> [src |-> "terW", mul |-> 10], h |-> [src |-> "terH", mul |-> 10],
        x |-> [src |-> "terX", add |-> 0], y |-> [src |-> "terY", add |-> 0],
        rgb |-> <<255, 120, 180>>, intensity |-> 50]>>],
  [labels |-> {<<"i", "d", "e", "n", "t", "i", "t", "y">>},
   stripBg |-> Hsl(328, 100, 56), bodyBg |-> Hsl(328, 100, 56),
   cardFill |-> "rgba(60, 10, 25, 0.22)",
   layers |-> <<
     [builder |-> "aura", w |-> [src |-> "secW", mul |-> 10], h |-> [src |-> "mainH", mul |-> 12],
        x |-> [src |-> "mainX", add |-> 15], y |-> [src |-> "mainY", add |-> -10],
        rgb |-> <<255, 140, 30>>, intensity |-> 60],
     [builder |-> "aura", w |-> [src |-> "mainW", mul |-> 8], h |-> [src |-> "secH", mul |-> 10],
        x |-> [src |-> "secX", add |-> -10], y |-> [src |-> "secY", add |-> 5],
        rgb |-> <<255, 120, 20>>, intensity |-> 55],
     [builder |-> "aura", w |-> [src |-> "terW", mul |-> 13], h |-> [src |-> "terH", mul |-> 7],
        x |-> [src |-> "terX", add |-> 0], y |-> [src |-> "terY", add |-> 0],
        rgb |-> <<255, 50, 30>>, intensity |-> 35]>>],
  [labels |-> {<<"c", "a", "r", "e", "e", "r">>},
   stripBg |-> Hsl(290, 100, 50), bodyBg |-> Hsl(290, 100, 50),
   cardFill |-> "hsla(340, 100%, 35%, 0.12)",
   layers |-> <<
     [builder |-> "aura", w |-> [src |-> "mainW", mul |-> 10], h |-> [src |-> "mainH", mul |-> 10],
        x |-> [src |-> "mainX", add |-> 0], y |-> [src |-> "mainY", add |-> 0],
        rgb |-> <<100, 180, 255>>, intensity |-> 70],
     [builder |-> "aura", w |-> [src |-> "secW", mul |-> 10], h |-> [src |-> "secH", mul |-> 10],
        x |-> [src |-> "secX", add |-> 0], y |-> [src |-> "secY", add |-> 0],
        rgb |-> <<150, 100, 255>>, intensity |-> 58],
     [builder |-> "aura", w |-> [src |-> "terW", mul |-> 10], h |-> [src |-> "terH", mul |-> 10],
        x |-> [src |-> "terX", add |-> 0], y |-> [src |-> "terY", add |-> 0],
        rgb |-> <<100, 220, 200>>, intensity |-> 48]>>],
  [labels |-> {<<"t", "r", "a", "v", "e", "l">>},
   stripBg |-> Hsl(15, 100, 50), bodyBg |-> Hsl(15, 100, 50),
   cardFill |-> "hsla(175, 70%, 40%, 0.08)",
   layers |-> <<
     [builder |-> "aura", w |-> [src |-> "mainW", mul |-> 10], h |-> [src |-> "mainH", mul |-> 10],
        x |-> [src |-> "mainX", add |-> 0], y |-> [src |-> "mainY", add |-> 0],
        rgb |-> <<80, 220, 200>>, intensity |-> 75],
     [builder |-> "aura", w |-> [src |-> "secW", mul |-> 10], h |-> [src |-> "secH", mul |-> 10],
        x |-> [src |-> "secX", add |-> 0], y |-> [src |-> "secY", add |-> 0],
        rgb |-> <<100, 180, 255>>, intensity |-> 58],
     [builder |-> "aura", w |-> [src |-> "terW", mul |-> 10], h |-> [src |-> "terH", mul |-> 10],
        x |-> [src |-> "terX", add |-> 0], y |-> [src |-> "terY", add |-> 0],
        rgb |-> <<150, 255, 180>>, intensity |-> 48]>>],
  [labels |-> {<<"h", "e", "a", "l", "t", "h">>},
   stripBg |-> Hsl(300, 100, 50), bodyBg |-> Hsl(300, 100, 50),
   cardFill |-> "hsla(0, 100%, 40%, 0.10)",
   layers |-> <<
     [builder |-> "aura", w |-> [src |-> "mainW", mul |-> 10], h |-> [src |-> "mainH", mul |-> 10],
        x |-> [src |-> "mainX", add |-> 0], y |-> [src |-> "mainY", add |-> 0],
        rgb |-> <<120, 255, 150>>, intensity |-> 72],
     [builder |-> "aura", w |-> [src |-> "secW", mul |-> 10], h |-> [src |-> "secH", mul |-> 10],
        x |-> [src |-> "secX", add |-> 0], y |-> [src |-> "secY", add |-> 0],
        rgb |-> <<100, 200, 255>>, intensity |-> 58],
     [builder |-> "aura", w |-> [src |-> "terW", mul |-> 10], h |-> [src |-> "terH", mul |-> 10],
        x |-> [src |-> "terX", add |-> 0], y |-> [src |-> "terY", add |-> 0],
        rgb |-> <<200, 255, 150>>, intensity |-> 48]>>],
  [labels |-> {<<"m", "o", "n", "e", "y">>},
   stripBg |-> Hsl(290, 100, 50), bodyBg |-> Hsl(290, 100, 50),
   cardFill |-> "hsla(340, 100%, 35%, 0.12)",
   layers |-> <<
     [builder |-> "aura", w |-> [src |-> "mainW", mul |-> 10], h |-> [src |-> "mainH", mul |-> 10],
        x |-> [src |-> "mainX", add |-> 0], y |-> [src |-> "mainY", add |-> 0],
        rgb |-> <<255, 220, 100>>, intensity |-> 75],
     [builder |-> "aura", w |-> [src |-> "secW", mul |-> 10], h |-> [src |-> "secH", mul |-> 10],
        x |-> [src |-> "secX", add |-> 0], y |-> [src |-> "secY", add |-> 0],
        rgb |-> <<255, 180, 50>>, intensity |-> 60],
     [builder |-> "aura", w |-> [src |-> "terW", mul |-> 10], h |-> [src |-> "terH", mul |-> 10],
        x |-> [src |-> "terX", add |-> 0], y |-> [src |-> "terY", add |-> 0],
        rgb |-> <<200, 255, 100>>, intensity |-> 48]>>],
  [labels |-> {<<"l", "o", "v", "e">>},
   stripBg |-> Hsl(15, 100, 50), bodyBg |-> Hsl(15, 100, 50),
   cardFill |-> "hsla(300, 100%, 60%, 0.10)",
   layers |-> <<
     [builder |-> "aura", w |-> [src |-> "mainW", mul |-> 10], h |-> [src |-> "mainH", mul |-> 10],
        x |-> [src |-> "mainX", add |-> 0], y |-> [src |-> "mainY", add |-> 0],
        rgb |-> <<255, 120, 150>>, intensity |-> 72],
     [builder |-> "aura", w |-> [src |-> "secW", mul |-> 10], h |-> [src |-> "secH", mul |-> 10],
        x |-> [src |-> "secX", add |-> 0], y |-> [src |-> "secY", add |-> 0],
        rgb |-> <<255, 80, 120>>, intensity |-> 58],
     [builder |-> "aura", w |-> [src |-> "terW", mul |-> 10], h |-> [src |-> "terH", mul |-> 10],
        x |-> [src |-> "terX", add |-> 0], y |-> [src |-> "terY", add |-> 0],
        rgb |-> <<255, 180, 200>>, intensity |-> 50]>>],
  [labels |-> {<<"h", "o", "b", "b", "y">>},
   stripBg |-> Hsl(328, 100, 56), bodyBg |-> Hsl(328, 100, 56),
   cardFill |-> "hsla(175, 70%, 40%, 0.08)",
   layers |-> <<
     [builder |-> "aura", w |-> [src |-> "mainW", mul |-> 10], h |-> [src |-> "mainH", mul |-> 10],
        x |-> [src |-> "mainX", add |-> 0], y |-> [src |-> "mainY", add |-> 0],
        rgb |-> <<100, 200, 255>>, intensity |-> 70],
     [builder |-> "aura", w |-> [src |-> "secW", mul |-> 10], h |-> [src |-> "secH", mul |-> 10],
        x |-> [src |-> "secX", add |-> 0], y |-> [src |-> "secY", add |-> 0],
        rgb |-> <<150, 100, 255>>, intensity |-> 58],
     [builder |-> "aura", w |-> [src |-> "terW", mul |-> 10], h |-> [src |-> "terH", mul |-> 10],
        x |-> [src |-> "terX", add |-> 0], y |-> [src |-> "terY", add |-> 0],
        rgb |-> <<100, 255, 220>>, intensity |-> 48]>>],
  [labels |-> {<<"d", "r", "e", "a", "m", "s">>},
   stripBg |-> Hsl(300, 100, 50), bodyBg |-> Hsl(300, 100, 50),
   cardFill |-> "hsla(0, 100%, 40%, 0.10)",
   layers |-> <<
     [builder |-> "aura", w |-> [src |-> "mainW", mul |-> 10], h |-> [src |-> "mainH", mul |-> 10],
        x |-> [src |-> "mainX", add |-> 0], y |-> [src |-> "mainY", add |-> 0],
        rgb |-> <<200, 150, 255>>, intensity |-> 75],
     [builder |-> "aura", w |-> [src |-> "secW", mul |-> 10], h |-> [src |-> "secH", mul |-> 10],
        x |-> [src |-> "secX", add |-> 0], y |-> [src |-> "secY", add |-> 0],
        rgb |-> <<255, 100, 200>>, intensity |-> 58],
     [builder |-> "aura", w |-> [src |-> "terW", mul |-> 10], h |-> [src |-> "terH", mul |-> 10],
        x |-> [src |-> "terX", add |-> 0], y |-> [src |-> "terY", add |-> 0],
        rgb |-> <<150, 200, 255>>, intensity |-> 50]>>],
  [labels |-> {<<"f", "e", "a", "r">>},
   stripBg |-> Hsl(0, 100, 50), bodyBg |-> Hsl(0, 100, 50),
   cardFill |-> "hsla(340, 100%, 35%, 0.12)",
   layers |-> <<
     [builder |-> "aura", w |-> [src |-> "mainW", mul |-> 10], h |-> [src |-> "mainH", mul |-> 10],
        x |-> [src |-> "mainX", add |-> 0], y |-> [src |-> "mainY", add |-> 0],
        rgb |-> <<100, 120, 180>>, intensity |-> 70],
     [builder |-> "aura", w |-> [src |-> "secW", mul |-> 10], h |-> [src |-> "secH", mul |-> 10],
        x |-> [src |-> "secX", add |-> 0], y |-> [src |-> "secY", add |-> 0],
        rgb |-> <<80, 100, 200>>, intensity |-> 55],
     [builder |-> "aura", w |-> [src |-> "terW", mul |-> 10], h |-> [src |-> "terH", mul |-> 10],
        x |-> [src |-> "terX", add |-> 0], y |-> [src |-> "terY", add |-> 0],
        rgb |-> <<150, 100, 180>>, intensity |-> 48]>>],
  [labels |-> {<<"w", "i", "s", "d", "o", "m">>},
   stripBg |-> Hsl(290, 100, 50), bodyBg |-> Hsl(290, 100, 50),
   cardFill |-> "hsla(300, 100%, 60%, 0.10)",
   layers |-> <<
     [builder |-> "aura", w |-> [src |-> "mainW", mul |-> 10], h |-> [src |-> "mainH", mul |-> 10],
        x |-> [src |-> "mainX", add |-> 0], y |-> [src |-> "mainY", add |-> 0],
        rgb |-> <<255, 220, 180>>, intensity |-> 72],
     [builder |-> "aura", w |-> [src |-> "secW", mul |-> 10], h |-> [src |-> "secH", mul |-> 10],
        x |-> [src |-> "secX", add |-> 0], y |-> [src |-> "secY", add |-> 0],
        rgb |-> <<255, 180, 120>>, intensity |-> 55],
     [builder |-> "aura", w |-> [src |-> "terW", mul |-> 10], h |-> [src |-> "terH", mul |-> 10],
        x |-> [src |-> "terX", add |-> 0], y |-> [src |-> "terY", add |-> 0],
        rgb |-> <<220, 200, 150>>, intensity |-> 48]>>],
  [labels |-> {<<"f", "u", "t", "u", "r", "e">>},
   stripBg |-> Hsl(15, 100, 50), bodyBg |-> Hsl(15, 100, 50),
   cardFill |-> "hsla(175, 70%, 40%, 0.08)",
   layers |-> <<
     [builder |-> "aura", w |-> [src |-> "mainW", mul |-> 10], h |-> [src |-> "mainH", mul |-> 10],
        x |-> [src |-> "mainX", add |-> 0], y |-> [src |-> "mainY", add |-> 0],
        rgb |-> <<100, 255, 200>>, intensity |-> 75],
     [builder |-> "aura", w |-> [src |-> "secW", mul |-> 10], h |-> [src |-> "secH", mul |-> 10],
        x |-> [src |-> "secX", add |-> 0], y |-> [src |-> "secY", add |-> 0],
        rgb |-> <<80, 200, 255>>, intensity |-> 58],
     [builder |-> "aura", w |-> [src |-> "terW", mul |-> 10], h |-> [src |-> "terH", mul |-> 10],
        x |-> [src |-> "terX", add |-> 0], y |-> [src |-> "terY", add |-> 0],
        rgb |-> <<150, 255, 180>>, intensity |-> 50]>>]>>

\* the default case of getCategoryColors
DefaultCardPalette ==
  [labels |-> {},
   stripBg |-> Hsl(290, 100, 50), bodyBg |-> Hsl(290, 100, 50),
   cardFill |-> "hsla(300, 100%, 60%, 0.10)",
   layers |-> <<
     [builder |-> "aura", w |-> [src |-> "mainW", mul |-> 10], h |-> [src |-> "mainH", mul |-> 10],
        x |-> [src |-> "mainX", add |-> 0], y |-> [src |-> "mainY", add |-> 0],
        rgb |-> <<200, 180, 255>>, intensity |-> 70],
     [builder |-> "aura", w |-> [src |-> "secW", mul |-> 10], h |-> [src |-> "secH", mul |-> 10],
        x |-> [src |-> "secX", add |-> 0], y |-> [src |-> "secY", add |-> 0],
        rgb |-> <<255, 150, 200>>, intensity |-> 55],
     [builder |-> "aura", w |-> [src |-> "terW", mul |-> 10], h |-> [src |-> "terH", mul |-> 10],
        x |-> [src |-> "terX", add |-> 0], y |-> [src |-> "terY", add |-> 0],
        rgb |-> <<150, 200, 255>>, intensity |-> 48]>>]

\* the cases of the switch of getCategoryBodyColor, in source order
BodyColors == <<
  [labels |-> {<<"f", "u", "c", "k">>}, color |-> Hsl(15, 100, 50)],
  [labels |-> {<<"f", "r", "i", "e", "n", "d", "s">>, <<"w", "e", "r", " ", "a", "u", "s", " ", "d", "e", "r", " ", "r", "u", "n", "d", "e">>}, color |-> Hsl(278, 100, 57)],
  [labels |-> {<<"s", "e", "l", "f", " ", "r", "e", "f", "l", "e", "c", "t", "i", "o", "n">>}, color |-> Hsl(290, 100, 50)],
  [labels |-> {<<"p", "a", "r", "t", "y">>}, color |-> Hsl(300, 100, 50)],
  [labels |-> {<<"f", "a", "m", "i", "l", "y">>}, color |-> Hsl(328, 100, 56)],
  [labels |-> {<<"c", "o", "n", "n", "e", "c", "t", "i", "o", "n">>}, color |-> Hsl(0, 100, 50)],
  [labels |-> {<<"i", "d", "e", "n", "t", "i", "t", "y">>}, color |-> Hsl(328, 100, 56)],
  [labels |-> {<<"c", "a", "r", "e", "e", "r">>}, color |-> Hsl(290, 100, 50)],
  [labels |-> {<<"t", "r", "a", "v", "e", "l">>}, color |-> Hsl(15, 100, 50)],
  [labels |-> {<<"h", "e", "a", "l", "t", "h">>}, color |-> Hsl(300, 100, 50)],
  [labels |-> {<<"m", "o", "n", "e", "y">>}, color |-> Hsl(290, 100, 50)],
  [labels |-> {<<"l", "o", "v", "e">>}, color |-> Hsl(15, 100, 50)],
  [labels |-> {<<"h", "o", "b", "b", "y">>}, color |-> Hsl(328, 100, 56)],
  [labels |-> {<<"d", "r", "e", "a", "m", "s">>}, color |-> Hsl(300, 100, 50)],
  [labels |-> {<<"f", "e", "a", "r">>}, color |-> Hsl(0, 100, 50)],
  [labels |-> {<<"w", "i", "s", "d", "o", "m">>}, color |-> Hsl(290, 100, 50)],
  [labels |-> {<<"f", "u", "t", "u", "r", "e">>}, color |-> Hsl(15, 100, 50)]>>

\* the default case of getCategoryBodyColor
DefaultBodyColor == Hsl(290, 100, 50)

\* getDarkShadows that ignores its seed and reads a running counter
getDarkShadows_Unseeded(seed) ==
  LET n == call.res.n
  IN [topRight |-> [w |-> ((n * 23) % 35) + 40, h |-> ((n * 29) % 30) + 30,
                    x |-> ((n * 13) % 30) + 70, y |-> ((n * 17) % 25) + 5],
      topLeft |-> [w |-> ((n * 41) % 30) + 35, h |-> ((n * 43) % 25) + 30,
                   x |-> ((n * 31) % 25) + 5, y |-> ((n * 37) % 20) + 5]]

\* the two dark ellipses of a slide: size and position in percent
getDarkShadows(seed) ==
  [topRight |-> [w |-> ((seed * 23) % 35) + 40, h |-> ((seed * 29) % 30) + 30,
                 x |-> ((seed * 13) % 30) + 70, y |-> ((seed * 17) % 25) + 5],
   topLeft |-> [w |-> ((seed * 41) % 30) + 35, h |-> ((seed * 43) % 25) + 30,
                x |-> ((seed * 31) % 25) + 5, y |-> ((seed * 37) % 20) + 5]]

getGlowPositions(seed) ==
  LET shapeVariant == seed % 4
      secVariant == (seed + 1) % 4
      terVariant == (seed + 2) % 4
  IN [mainX |-> ((seed * 47) % 18) + 58,
      mainY |-> ((seed * 53) % 18) + 52,
      mainW |-> CASE shapeVariant = 0 -> ((seed * 59) % 20) + 50
                  [] shapeVariant = 1 -> ((seed * 59) % 15) + 35
                  [] shapeVariant = 2 -> ((seed * 59) % 25) + 45
                  [] OTHER -> ((seed * 59) % 18) + 40,
      mainH |-> CASE shapeVariant = 0 -> ((seed * 61) % 15) + 25
                  [] shapeVariant = 1 -> ((seed * 61) % 20) + 45
                  [] shapeVariant = 2 -> ((seed * 61) % 12) + 20
                  [] OTHER -> ((seed * 61) % 22) + 38,
      secX |-> ((seed * 67) % 20) + 52,
      secY |-> ((seed * 71) % 20) + 55,
      secW |-> CASE secVariant = 0 -> ((seed * 73) % 18) + 42
                 [] secVariant = 1 -> ((seed * 73) % 12) + 28
                 [] secVariant = 2 -> ((seed * 73) % 22) + 38
                 [] OTHER -> ((seed * 73) % 15) + 32,
      secH |-> CASE secVariant = 0 -> ((seed * 79) % 12) + 20
                 [] secVariant = 1 -> ((seed * 79) % 18) + 38
                 [] secVariant = 2 -> ((seed * 79) % 10) + 18
                 [] OTHER -> ((seed * 79) % 20) + 35,
      terX |-> ((seed * 83) % 22) + 55,
      terY |-> ((seed * 89) % 22) + 48,
      terW |-> CASE terVariant = 0 -> ((seed * 97) % 20) + 45
                 [] terVariant = 1 -> ((seed * 97) % 14) + 30
                 [] terVariant = 2 -> ((seed * 97) % 25) + 40
                 [] OTHER -> ((seed * 97) % 16) + 35,
      terH |-> CASE terVariant = 0 -> ((seed * 101) % 14) + 22
                 [] terVariant = 1 -> ((seed * 101) % 20) + 40
                 [] terVariant = 2 -> ((seed * 101) % 12) + 18
                 [] OTHER -> ((seed * 101) % 18) + 32]

\* the arguments of one buildAuraGradient / buildFlameGradient /
\* buildVerticalAuraGradient call; widths and heights in tenths of a percent,
\* the intensity in hundredths
gradientLayer(layer, glow) ==
  [builder |-> layer.builder,
   w |-> glow[layer.w.src] * layer.w.mul, h |-> glow[layer.h.src] * layer.h.mul,
   x |-> glow[layer.x.src] + layer.x.add, y |-> glow[layer.y.src] + layer.y.add,
   rgb |-> layer.rgb, intensity |-> layer.intensity]

\* the object a case of the switch returns
paletteOf(entry, shadows, glow) ==
  [stripBg |-> entry.stripBg, bodyBg |-> entry.bodyBg, cardFill |-> entry.cardFill,
   gradient |-> [topRight |-> shadows.topRight, topLeft |-> shadows.topLeft,
                 layers |-> [i \in DOMAIN entry.layers |-> gradientLayer(entry.layers[i], glow)]]]

\* the first case that lists the key, or the default
switchOn(cases, key, default) ==
  LET hits == {i \in DOMAIN cases : key \in cases[i].labels}
  IN IF hits = {} THEN default
     ELSE cases[CHOOSE i \in hits : \A j \in hits : i <= j]

\* getCategoryColors switching on the category as it is written
getCategoryColors_CaseSensitive(category, qIndex) ==
  paletteOf(switchOn(CardPalettes, category, DefaultCardPalette),
            getDarkShadows(qIndex), getGlowPositions(qIndex))

getCategoryColors(category, qIndex) ==
  paletteOf(switchOn(CardPalettes, toLowerCase(category), DefaultCardPalette),
            getDarkShadows(qIndex), getGlowPositions(qIndex))

getCategoryBodyColor(category) ==
  switchOn(BodyColors, toLowerCase(category), [labels |-> {}, color |-> DefaultBodyColor]).color

\* interpolateColor without the step that brings a hue of 360 or more back
interpolateColor_NoWrap(color1, color2, k) ==
  IF color1.kind # "hsl" \/ color2.kind # "hsl" THEN color1
  ELSE LET h1 == DecimalValue(color1.h)
           h2 == DecimalValue(color2.h)
           d == h2 - h1
           hueDiff == IF d > 180 THEN d - 360 ELSE IF d < -180 THEN d + 360 ELSE d
           raw == h1 * ProgressSteps + hueDiff * k
           lifted == IF raw < 0 THEN raw + 360 * ProgressSteps ELSE raw
           round(n) == (2 * n + ProgressSteps) \div (2 * ProgressSteps)
           at(v1, v2) == round(v1 * ProgressSteps + (v2 - v1) * k)
       IN Hsl(round(lifted),
              at(DecimalValue(color1.s), DecimalValue(color2.s)),
              at(DecimalValue(color1.l), DecimalValue(color2.l)))

\* interpolateColor(color1, color2, progress) with progress = k / ProgressSteps;
\* numbers are kept in units of 1 / ProgressSteps until Math.round
interpolateColor(color1, color2, k) ==
  IF color1.kind # "hsl" \/ color2.kind # "hsl" THEN color1
  ELSE LET h1 == DecimalValue(color1.h)
           h2 == DecimalValue(color2.h)
           d == h2 - h1
           hueDiff == IF d > 180 THEN d - 360 ELSE IF d < -180 THEN d + 360 ELSE d
           raw == h1 * ProgressSteps + hueDiff * k
           lifted == IF raw < 0 THEN raw + 360 * ProgressSteps ELSE raw
           h == IF lifted >= 360 * ProgressSteps THEN lifted - 360 * ProgressSteps ELSE lifted
           round(n) == (2 * n + ProgressSteps) \div (2 * ProgressSteps)
           at(v1, v2) == round(v1 * ProgressSteps + (v2 - v1) * k)
       IN Hsl(round(h),
              at(DecimalValue(color1.s), DecimalValue(color2.s)),
              at(DecimalValue(color1.l), DecimalValue(color2.l)))

\* category strings: every label of the table in lower case, in upper case
\* and capitalised, and strings that are not labels
AllLabels == UNION {CardPalettes[i].labels : i \in DOMAIN CardPalettes}
Capitalised(word) == <<toUpperCaseChar(Head(word))>> \o Tail(word)
UnknownCategories ==
  {<<>>, <<"x", "y", "z">>, <<"p", "a", "r", "t", "y", " ">>, <<"P", "A", "R", "T">>}
ColorCategories ==
  AllLabels \cup {toUpperCase(l) : l \in AllLabels} \cup {Capitalised(l) : l \in AllLabels}
    \cup UnknownCategories
SlideSeeds == 0..MaxSeed

InitColor ==
  /\ Quiet /\ motion = NoMotion
  /\ call = [fn |-> "colors", arg |-> [category |-> <<>>, seed |-> 0],
             res |-> [n |-> 0], done |-> FALSE]

\* one render resolves the palette of a card and the ambient body color
ResolveColors ==
  /\ call.fn = "colors" /\ call.res.n < MaxEvaluations
  /\ \E category \in ColorCategories, seed \in SlideSeeds :
       LET arg == [category |-> category, seed |-> seed]
           palette == getCategoryColors(category, seed)
           ambient == getCategoryBodyColor(category)
       IN call' = [fn |-> "colors", arg |-> arg, done |-> TRUE,
                   res |-> [n |-> call.res.n + 1, card |-> palette, body |-> ambient,
                            first |-> IF call.res.n = 0
                                      THEN [arg |-> arg, card |-> palette, body |-> ambient]
                                      ELSE call.res.first]]
  /\ UNCHANGED <<navVars, motion>>

NextColor == ResolveColors

SpecColor == InitColor /\ [][NextColor]_vars

\* base colors: hues in [0, 360), saturation and lightness in [0, 100]
BaseHues == {0, 15, 180, 278, 290, 300, 328, 359}
BaseSaturations == {0, 100}
BaseLightnesses == {50, 56, 57, 65}
BaseColors == {Hsl(h, sat, l) : h \in BaseHues, sat \in BaseSaturations, l \in BaseLightnesses}
InterpolateInputs == [a : BaseColors, b : BaseColors, k : 0..ProgressSteps]

InitInterpolate == Quiet /\ motion = NoMotion /\ call \in Pending("interpolate", InterpolateInputs)

Interpolate ==
  /\ call.fn = "interpolate" /\ ~call.done
  /\ call' = [call EXCEPT !.res = interpolateColor(call.arg.a, call.arg.b, call.arg.k),
                          !.done = TRUE]
  /\ UNCHANGED <<navVars, motion>>

NextInterpolate == Interpolate

SpecInterpolate == InitInterpolate /\ [][NextInterpolate]_vars

\* ------------------------------------------------------ slide window
\* navigation on a wide phone and on a desktop window
InitLayout ==
  /\ host = InitHost
  /\ card = NoCard
  /\ timers = <<>>
  /\ pointer = "none"
  /\ innerWidth \in {WideMobileWidth, DesktopWidth}
  /\ search = NoParam
  /\ notes = <<>>
  /\ last = [op |-> "init", key |-> "", out |-> "", click |-> "none", seq |-> <<>>, x |-> 0]
  /\ motion = NoMotion
  /\ call = NoCall

SpecLayout == InitLayout /\ [][Next]_vars

\* the reference width and the angle of the drag pose
ReferenceWidth == 300
MaxAngle == 5

\* a scale is kept in units of 1/6000, an angle in units of 1/60 degree, so
\* that every pose at an integer pixel offset is an integer
ScaleOne == 6000
AngleOne == 60
ActiveShrink == 1200
NeighborRestScale == 5100
NeighborGrow == 900
OuterScale == 4800

\* Math.min(Math.abs(dragOffset) / 300, 1), as its numerator over 300
getDragProgress(c) == Min(Abs(c.dragOffset), ReferenceWidth)

currentScale(c) == ScaleOne - (getDragProgress(c) * ActiveShrink) \div ReferenceWidth
currentRotation(c) == (c.dragOffset * MaxAngle * AngleOne) \div ReferenceWidth

SlidePositions == {"prev2", "prev", "active", "next", "next2"}

\* a length of the form p% + x px; the percentage is of the card's own width
Length(pct, px) == [pct |-> pct, px |-> px]
calc(base, offsetPx) == [base EXCEPT !.px = @ + offsetPx]
Pixels(len) == (len.pct * getCardWidth) \div 100 + len.px

desktopOffset == (innerWidth \div 2) + (getCardWidth \div 2)

slideBase(slidePosition) ==
  CASE slidePosition = "prev2" ->
         IF isMobile THEN Length(-200, -32) ELSE Length(0, -desktopOffset * 2)
    [] slidePosition = "prev" ->
         IF isMobile THEN Length(-100, -16) ELSE Length(0, -desktopOffset)
    [] slidePosition = "next" ->
         IF isMobile THEN Length(100, 16) ELSE Length(0, desktopOffset)
    [] slidePosition = "next2" ->
         IF isMobile THEN Length(200, 32) ELSE Length(0, desktopOffset * 2)
    [] OTHER -> Length(0, 0)

\* the style of one slide of the window; the swipe hint is not shown
getSlideStyle(c, slidePosition) ==
  LET totalOffset == c.dragOffset
      progress == getDragProgress(c)
      baseTransition == IF c.isDragging \/ c.skipTransition THEN 0 ELSE transitionDuration
      slideOffsetPx == totalOffset
      style(offsetPx, scale, rotate, zIndex) ==
        [translateX |-> calc(slideBase(slidePosition), offsetPx), scale |-> scale,
         rotate |-> rotate, transition |-> baseTransition, zIndex |-> zIndex]
  IN CASE slidePosition = "prev2" ->
            style(slideOffsetPx, OuterScale, -MaxAngle * AngleOne, 0)
       [] slidePosition = "prev" ->
            LET prevScale == IF totalOffset > 0
                             THEN NeighborRestScale + (progress * NeighborGrow) \div ReferenceWidth
                             ELSE NeighborRestScale
                prevRotation == IF totalOffset > 0
                                THEN (-MaxAngle * AngleOne * (ReferenceWidth - progress)) \div ReferenceWidth
                                ELSE -MaxAngle * AngleOne
                prevOffsetPx == IF totalOffset > 0 THEN slideOffsetPx ELSE 0
            IN style(prevOffsetPx, prevScale, prevRotation, 1)
       [] slidePosition = "active" ->
            style(slideOffsetPx, currentScale(c), currentRotation(c), 2)
       [] slidePosition = "next" ->
            LET nextScale == IF totalOffset < 0
                             THEN NeighborRestScale + (progress * NeighborGrow) \div ReferenceWidth
                             ELSE NeighborRestScale
                nextRotation == IF totalOffset < 0
                                THEN (MaxAngle * AngleOne * (ReferenceWidth - progress)) \div ReferenceWidth
                                ELSE MaxAngle * AngleOne
                nextOffsetPx == IF totalOffset < 0 THEN slideOffsetPx ELSE 0
            IN style(nextOffsetPx, nextScale, nextRotation, 1)
       [] OTHER ->
            style(slideOffsetPx, OuterScale, MaxAngle * AngleOne, 0)

\* the slot of a slide, counted from the active one
SlotOf(slidePosition) ==
  CASE slidePosition = "prev2" -> -2 [] slidePosition = "prev" -> -1
    [] slidePosition = "active" -> 0 [] slidePosition = "next" -> 1
    [] OTHER -> 2

\* the question props of QuizCard: null outside the sequence
NoSlide == [rendered |-> FALSE]

questionProp(h, slidePosition) ==
  LET at(i) == [rendered |-> TRUE, question |-> h.questions[i + 1]]
  IN CASE slidePosition = "next" ->
            IF h.currentIndex < Len(h.questions) - 1 THEN at(h.currentIndex + 1) ELSE NoSlide
       [] slidePosition = "prev" ->
            IF h.currentIndex > 0 THEN at(h.currentIndex - 1) ELSE NoSlide
       [] slidePosition = "next2" ->
            IF h.currentIndex < Len(h.questions) - 2 THEN at(h.currentIndex + 2) ELSE NoSlide
       [] slidePosition = "prev2" ->
            IF h.currentIndex > 1 THEN at(h.currentIndex - 2) ELSE NoSlide
       [] OTHER -> at(h.currentIndex)

\* the seed that takes the active index for every slide
cardQuestionIndex_Active(h, slidePosition) == h.currentIndex

\* the index handed to renderCard
cardQuestionIndex(h, slidePosition) == h.currentIndex + SlotOf(slidePosition)

\* the rendered window: the slides that exist, each with its record and seed
renderWindow(h) ==
  [p \in SlidePositions |->
     IF questionProp(h, p).rendered
     THEN [rendered |-> TRUE, question |-> questionProp(h, p).question,
           seed |-> cardQuestionIndex(h, p)]
     ELSE NoSlide]

\* sequences of one to MaxWindowLen records; a record carries its position
RECURSIVE CategoryLists(_)
CategoryLists(n) ==
  IF n = 0 THEN {<<>>}
  ELSE {Append(cs, c) : cs \in CategoryLists(n - 1), c \in {"party", "family"}}

WindowSequences ==
  {[i \in 1..Len(cs) |-> [question |-> i, category |-> cs[i]]] :
     cs \in UNION {CategoryLists(n) : n \in 1..MaxWindowLen}}

WindowInputs == {[questions |-> qs, index |-> 0] : qs \in WindowSequences}

\* the host showing the sequence at the index
WindowHost(arg) ==
  [InitHost EXCEPT !.questions = arg.questions, !.allQuestions = arg.questions,
                   !.currentIndex = arg.index, !.loading = FALSE,
                   !.initialIndexApplied = TRUE]

InitWindow == Quiet /\ motion = NoMotion /\ call \in Pending("window", WindowInputs)

\* the first render of the card
MountWindow ==
  /\ call.fn = "window" /\ ~call.done
  /\ call' = [call EXCEPT !.res = renderWindow(WindowHost(call.arg)), !.done = TRUE]
  /\ UNCHANGED <<navVars, motion>>

\* onSwipeLeft / onSwipeRight and the render that follows
WindowAfter(h) ==
  [call EXCEPT !.arg.index = h.currentIndex, !.res = renderWindow(h)]

SwipeLeft ==
  /\ call.fn = "window" /\ call.done
  /\ LET h == WindowHost(call.arg)
     IN /\ hasNext(h)
        /\ call' = WindowAfter(nextQuestion(h, h.currentIndex, Len(h.questions)))
  /\ UNCHANGED <<navVars, motion>>

SwipeRight ==
  /\ call.fn = "window" /\ call.done
  /\ LET h == WindowHost(call.arg)
     IN /\ hasPrev(h)
        /\ call' = WindowAfter(prevQuestion(h, h.currentIndex))
  /\ UNCHANGED <<navVars, motion>>

NextWindow == MountWindow \/ SwipeLeft \/ SwipeRight

SpecWindow == InitWindow /\ [][NextWindow]_vars

\* ------------------------------------------------------- smart shuffle
\* the orders Array.prototype.sort can leave n elements in when the
\* comparator answers at random
SortOrders(n) ==
  {f \in [1..n -> 1..n] : \A i, j \in 1..n : f[i] = f[j] => i = j}

Swap(seq, i, j) == [seq EXCEPT ![i] = seq[j], ![j] = seq[i]]

\* the loop over i, with positions counted from 1
RECURSIVE swapLoop(_, _)
swapLoop(shuffled, i) ==
  IF i > Len(shuffled) - 1 THEN shuffled
  ELSE IF shuffled[i].category = shuffled[i + 1].category
       THEN LET candidates ==
                  {j \in (i + 2)..Len(shuffled) :
                     /\ shuffled[j].category # shuffled[i].category
                     /\ (i = 1 \/ shuffled[j].category # shuffled[i - 1].category)}
                swapIndex == CHOOSE j \in candidates : \A k \in candidates : j <= k
            IN IF candidates = {} THEN swapLoop(shuffled, i + 1)
               ELSE swapLoop(Swap(shuffled, i + 1, swapIndex), i + 1)
       ELSE swapLoop(shuffled, i + 1)

\* order is the outcome of the random pre-shuffle
smartShuffleByCategory(questions, order) ==
  IF Len(questions) <= 1 THEN questions
  ELSE swapLoop([i \in 1..Len(questions) |-> questions[order[i]]], 1)

ShuffleCategories == {"party", "family", "friends"}

RECURSIVE ShuffleLists(_)
ShuffleLists(n) ==
  IF n = 0 THEN {<<>>}
  ELSE {Append(cs, c) : cs \in ShuffleLists(n - 1), c \in ShuffleCategories}

\* the parsed questions: one to MaxShuffleLen records, each with its line
ShuffleInputs ==
  {[i \in 1..Len(cs) |-> [question |-> i, category |-> cs[i]]] :
     cs \in UNION {ShuffleLists(n) : n \in 1..MaxShuffleLen}}

InitShuffle == Quiet /\ motion = NoMotion /\ call \in Pending("shuffle", ShuffleInputs)

SmartShuffle ==
  /\ call.fn = "shuffle" /\ ~call.done
  /\ \E order \in SortOrders(Len(call.arg)) :
       call' = [call EXCEPT !.res = smartShuffleByCategory(call.arg, order),
                            !.done = TRUE]
  /\ UNCHANGED <<navVars, motion>>

NextShuffle == SmartShuffle

SpecShuffle == InitShuffle /\ [][NextShuffle]_vars

\* ------------------------------------------------------------ phases
CommitPending == CountKinds(timers, CommitKinds) > 0
SnapPending == CountKinds(timers, SnapKinds) > 0
Idle == card.mounted /\ ~card.isDragging /\ ~card.isTransitioning
IdleAtRest == Idle /\ card.dragOffset = 0 /\ card.transitionDirection = Null

ReleaseOps == {"MouseUp", "TouchEnd", "MouseLeave"}
InputOps == {"MouseDown", "MouseMove", "MouseUp", "MouseLeave",
             "TouchStart", "TouchMove", "TouchEnd", "KeyDown"}
CommitOuts == {"commitLeft", "commitRight"}

\* this step ran handleEnd on a live drag
LiveRelease ==
  /\ card.mounted /\ card.isDragging
  /\ \/ last'.op \in {"MouseUp", "MouseLeave"}
     \/ last'.op = "TouchEnd" /\ pointer = "touchCard"

\* this step took a commit decision
CommitDecision == last'.out \in CommitOuts \/ last'.click \in CommitOuts
CommitDecisionLeft == last'.out = "commitLeft" \/ last'.click = "commitLeft"

Added(kinds) == CountKinds(timers', kinds) - CountKinds(timers, kinds)

ProgressOneNotes(ns) == {i \in 1..Len(ns) : ~ns[i].isDragging /\ ns[i].progress = ProgressOne}

\* ------------------------------------------------------------- claims

\* C1: whenever the question sequence is non-empty, the active index is a
\* valid index into it: 0 <= currentIndex <= questions.length - 1.
C1_IndexInRange == Len(host.questions) > 0 => IndexInRange(host)

\* C2: no duplicate commits: at most one commit timer is pending at any time.
C2_SingleCommitPending == CountKinds(timers, CommitKinds) <= 1

\* C3: a drag released at or beyond the threshold with an adjacent record in
\* the drag direction commits in that direction, and the commit changes the
\* index by exactly one step (negative offset: +1, positive offset: -1).
C3_Release(Beyond(_)) ==
  /\ (LiveRelease /\ Beyond(card.dragOffset) /\ card.dragOffset < 0 /\ hasNext(host))
       => /\ last'.out = "commitLeft"
          /\ Added({"onSwipeLeft"}) = 1 /\ Added({"onSwipeRight"}) = 0
          /\ host'.currentIndex = host.currentIndex
  /\ (LiveRelease /\ Beyond(card.dragOffset) /\ card.dragOffset > 0 /\ hasPrev(host))
       => /\ last'.out = "commitRight"
          /\ Added({"onSwipeRight"}) = 1 /\ Added({"onSwipeLeft"}) = 0
          /\ host'.currentIndex = host.currentIndex
  /\ (last'.op = "FireTimer" /\ last'.out = "onSwipeLeft")
       => host'.currentIndex = host.currentIndex + 1
  /\ (last'.op = "FireTimer" /\ last'.out = "onSwipeRight")
       => host'.currentIndex = host.currentIndex - 1

AtOrBeyondThreshold(offset) == Abs(offset) >= dragThreshold
BeyondThreshold(offset) == Abs(offset) > dragThreshold

\* C3 as stated, the threshold itself included
C3_ThresholdInclusive == [][C3_Release(AtOrBeyondThreshold)]_vars

\* C3 amended: the offset must exceed the threshold
C3_ThresholdExceeded == [][C3_Release(BeyondThreshold)]_vars

\* a drag released beyond the threshold has committed to the next record
C3_Witness ==
  /\ last.op \in ReleaseOps /\ last.out = "commitLeft"
  /\ CountKinds(timers, {"onSwipeLeft"}) = 1
  /\ card.dragOffset = -getSlideDistance

\* the timers of the given kinds pending now were all scheduled by the
\* mounted card
AllLive(kinds) == \A i \in 1..Len(timers) : timers[i].kind \in kinds => ~timers[i].dead

\* the first timer of a snap-back puts the card back at offset 0, and the
\* second one, when nothing else is in flight, ends in Idle at offset 0
SnapBackCompletes ==
  /\ (last'.op = "FireTimer" /\ last'.out = "snap0" /\ card.mounted /\ AllLive({"snap0"}))
       => /\ card'.dragOffset = 0
          /\ host'.currentIndex = host.currentIndex
          /\ Added({"snap2"}) = 1
  /\ (/\ last'.op = "FireTimer" /\ last'.out = "snap2"
      /\ card.mounted /\ AllLive({"snap2"}) /\ ~card.isDragging
      /\ CountKinds(timers, CommitKinds \cup SnapKinds) = 1)
       => /\ ~card'.isDragging /\ ~card'.isTransitioning
          /\ card'.dragOffset = 0 /\ card'.transitionDirection = Null
          /\ host'.currentIndex = host.currentIndex

CommitNotes(ns, direction) ==
  {i \in 1..Len(ns) : /\ ~ns[i].isDragging /\ ns[i].progress = ProgressOne
                      /\ ns[i].direction = direction}

C6_DraggingExcludesTransitioning == ~(card.isDragging /\ card.isTransitioning)

\* C7: a gesture start (mousedown or touchstart) while a commit or a
\* snap-back is in flight is rejected: the card, the host and the pending
\* timers are what they were.
C7_StartRejectedInFlight ==
  [][ (last'.op \in {"MouseDown", "TouchStart"} /\ card.mounted /\ card.isTransitioning)
        => (card' = card /\ host' = host /\ timers' = timers) ]_vars

\* C8: ArrowLeft commits toward the previous record and ArrowRight toward the
\* next one; an arrow key pressed between a commit decision and its index
\* change, or during a snap-back, changes no state and schedules nothing.
C8_ArrowKeys ==
  [][ last'.op = "KeyDown" =>
        /\ last'.out \in CommitOuts =>
             last'.out = (IF last'.key = "ArrowLeft" THEN "commitRight" ELSE "commitLeft")
        /\ (card.mounted /\ (CommitPending \/ SnapPending))
             => (host' = host /\ card' = card /\ timers' = timers /\ notes' = <<>>) ]_vars

\* C9: a mouse click on an edge zone (mousedown, mouseup, click, the first two
\* bubbling to the card container) that starts in Idle with nothing in
\* flight commits toward the record on that side.
C9_EdgeClickCommits ==
  [][ (/\ last.op = "MouseDown" /\ last'.op = "MouseUp"
       /\ pointer \in {"mouseL", "mouseR"}
       /\ card.mounted /\ ~card.isTransitioning /\ timers = <<>>)
        => /\ last'.click = (IF pointer = "mouseL" THEN "commitRight" ELSE "commitLeft")
           /\ Added(CommitKinds) = 1 ]_vars

\* C10: the step that takes a commit decision sends exactly one notification,
\* (isDragging = false, progress = 1, category of the destination record,
\* direction -1 toward next / +1 toward previous), schedules the one commit
\* timer and leaves the index as it is.
C10_CommitNotification ==
  [][ CommitDecision =>
        LET dest == IF CommitDecisionLeft THEN nextQuestionProp(host)
                    ELSE prevQuestionProp(host)
        IN /\ notes' = << [isDragging |-> FALSE, progress |-> ProgressOne,
                           targetCategory |-> dest.category,
                           direction |-> IF CommitDecisionLeft THEN -1 ELSE 1] >>
           /\ host'.currentIndex = host.currentIndex
           /\ host'.dragProgress = ProgressOne
           /\ Added(CommitKinds) = 1 ]_vars

\* an edge tap has committed toward the previous record and the observer
\* holds its notification
C10_Witness ==
  /\ last.op = "TouchEnd" /\ last.click = "commitRight"
  /\ Len(notes) = 1 /\ notes[1].direction = 1 /\ notes[1].progress = ProgressOne
  /\ notes[1].targetCategory = prevQuestionProp(host).category
  /\ CountKinds(timers, {"onSwipeRight"}) >= 1

\* C11: between the commit notification and the index change no timer resets
\* the ambient state: while a commit is pending and the host shows progress
\* 1, a timer callback that leaves the index as it is also leaves
\* dragProgress at 1 and targetCategory at the destination category.
C11_AmbientLockStep ==
  [][ (/\ last'.op = "FireTimer" /\ CommitPending
       /\ host.dragProgress = ProgressOne
       /\ host'.currentIndex = host.currentIndex)
        => /\ host'.dragProgress = ProgressOne
           /\ host'.targetCategory = host.targetCategory ]_vars

\* position of the first / last occurrence of an update in the log of a task
FirstPos(seq, x) ==
  IF \E i \in 1..Len(seq) : seq[i] = x
  THEN CHOOSE i \in 1..Len(seq) : seq[i] = x /\ \A j \in 1..(i - 1) : seq[j] # x
  ELSE 0
LastPos(seq, x) ==
  IF \E i \in 1..Len(seq) : seq[i] = x
  THEN CHOOSE i \in 1..Len(seq) : seq[i] = x /\ \A j \in (i + 1)..Len(seq) : seq[j] # x
  ELSE 0

\* a commit timer changes the index of a card that stays mounted
CommittedIndexChange ==
  /\ last'.op = "FireTimer" /\ last'.out \in CommitKinds
  /\ host'.currentIndex # host.currentIndex
  /\ card.mounted /\ card'.mounted

C13_NoStalePaint ==
  [][ /\ (host'.currentIndex # host.currentIndex /\ card.mounted /\ card'.mounted)
           => /\ card'.dragOffset = 0 /\ ~card'.isTransitioning
              /\ card'.transitionDirection = Null
              /\ card'.skipTransition /\ card'.rafFrames >= 1
      /\ (card.mounted /\ card'.mounted /\ card.skipTransition /\ ~card'.skipTransition)
           => /\ last'.op = "RafFrame"
              /\ host'.currentIndex = host.currentIndex ]_vars

\* a new index is shown after a drag commit, reset and with transitions off
C13_Witness ==
  /\ last.op = "FireTimer" /\ last.out = "onSwipeLeft"
  /\ host.currentIndex = 1 /\ card.mounted
  /\ card.skipTransition /\ card.rafFrames = 2 /\ card.dragOffset = 0

\* C14: immediately after a committed index change the drag state is
\* neutral: the card is not dragging and its offset is 0.
C14_NeutralAfterIndexChange ==
  [][ CommittedIndexChange => (~card'.isDragging /\ card'.dragOffset = 0) ]_vars

\* the timer that runs in this step was scheduled by a card that has been
\* unmounted since
FiredOrphan ==
  /\ last'.op = "FireTimer" /\ last'.out \in CommitKinds \cup SnapKinds
  /\ \E i \in 1..Len(timers) : timers[i].kind = last'.out
  /\ \A i \in 1..Len(timers) : timers[i].kind = last'.out => timers[i].dead

\* C15: a commit or snap-back timer of a card that was unmounted while the
\* timer was pending changes neither the active index, nor the state of a
\* card, nor the drag and chrome state of the host.
C15_TeardownCancelsTimers ==
  [][ FiredOrphan =>
        /\ host'.currentIndex = host.currentIndex
        /\ card' = card
        /\ host'.dragProgress = host.dragProgress
        /\ host'.targetCategory = host.targetCategory
        /\ host'.logoSqueezeDirection = host.logoSqueezeDirection
        /\ host'.lockedTransformOrigin = host.lockedTransformOrigin ]_vars

\* C16: when timers run and drags are released, every transition of a
\* mounted card (Committing or SnappingBack) is eventually followed by Idle
\* with dragOffset 0, unless the card is torn down.
C16_TransitionsEnd ==
  (card.mounted /\ card.isTransitioning) ~> (IdleAtRest \/ ~Alive)

StartOps == {"MouseDown", "TouchStart"}
MoveOps == {"MouseMove", "TouchMove"}

\* C17: a gesture start at x0, by mouse or by touch, records startX = x0 and
\* offset 0; every move to x while dragging sets the offset to x - startX and
\* keeps startX, so after start(x0) and moves to x1..xn the offset is
\* xn - x0; a move while not dragging changes no state and notifies nobody.
C17_OffsetTracking ==
  [][ /\ (last'.op \in StartOps /\ last'.out = "start")
           => /\ last'.x \in PointerXs
              /\ card'.isDragging /\ card'.startX = last'.x /\ card'.dragOffset = 0
      /\ (last'.op \in MoveOps /\ card.mounted /\ card.isDragging)
           => /\ last'.out = "move" /\ last'.x \in PointerXs
              /\ card'.dragOffset = last'.x - card.startX
              /\ card'.startX = card.startX /\ card'.isDragging
      /\ (last'.op \in MoveOps /\ ~card.isDragging)
           => /\ last'.out = "ignored"
              /\ card' = card /\ host' = host /\ timers' = timers /\ notes' = <<>> ]_vars

\* a touch drag that started at x0 has moved twice and stands at x2 - x0
C17_Witness ==
  /\ last.op = "TouchMove" /\ last.out = "move" /\ card.isDragging
  /\ card.startX = 110 /\ last.x = 10 /\ card.dragOffset = -100
  /\ host.dragProgress = 100

\* C18: the state right after the release of a live drag is not dragging,
\* whether the release committed to the left, to the right or snapped back.
C18_EndClearsDragging ==
  [][ LiveRelease =>
        /\ last'.out \in {"commitLeft", "commitRight", "snapBack"}
        /\ card'.mounted => ~card'.isDragging ]_vars

\* a mouse drag toward the previous record was released and committed
C18_Witness ==
  /\ last.op = "MouseUp" /\ last.out = "commitRight"
  /\ card.mounted /\ ~card.isDragging /\ card.isTransitioning
  /\ card.transitionDirection = "right"

\* C19: a mouse-leave while dragging leaves the host, the card, the pending
\* timers and the notifications exactly as end() would from the same state,
\* so a drag beyond the threshold that leaves the card commits; a mouse-leave
\* while not dragging changes nothing.
C19_MouseLeaveIsEnd ==
  [][ last'.op = "MouseLeave" =>
        LET e == Render(handleEnd(Cur))
        IN /\ card.isDragging
                => /\ host' = e.h /\ card' = e.c /\ timers' = e.t /\ notes' = e.n
                   /\ last'.out = e.o /\ last'.out # "ignored"
           /\ (card.isDragging /\ card.dragOffset < -dragThreshold /\ hasNext(host))
                => last'.out = "commitLeft" /\ Added({"onSwipeLeft"}) = 1
           /\ (card.isDragging /\ card.dragOffset > dragThreshold /\ hasPrev(host))
                => last'.out = "commitRight" /\ Added({"onSwipeRight"}) = 1
           /\ ~card.isDragging
                => /\ host' = host /\ card' = card /\ timers' = timers
                   /\ notes' = <<>> /\ last'.out = "ignored" ]_vars

\* the mouse left the card during a drag beyond the threshold: committed
C19_Witness ==
  /\ last.op = "MouseLeave" /\ last.out = "commitLeft"
  /\ ~card.isDragging /\ card.isTransitioning
  /\ CountKinds(timers, {"onSwipeLeft"}) >= 1

\* C20: the deep link is applied or skipped at most once, and only when the
\* question sequence is non-empty: initialIndexApplied is set by the step that
\* first sees loaded questions and never cleared; from then on a change of the
\* selected categories puts the index at 0 (or leaves it, for an empty
\* selection) whatever the q parameter says.
C20_DeepLinkOnce ==
  [][ /\ host.initialIndexApplied => host'.initialIndexApplied
      /\ (~host.initialIndexApplied /\ host'.initialIndexApplied)
           => /\ last'.op = "FetchDone" /\ Len(host'.questions) > 0
              /\ host'.currentIndex
                   = IF search.kind = "num" /\ search.n < Len(host'.questions)
                     THEN search.n ELSE 0
      /\ (~host.initialIndexApplied /\ ~host'.initialIndexApplied)
           => host'.currentIndex = host.currentIndex
      /\ (host.initialIndexApplied /\ last'.op = "SetCategories")
           => host'.currentIndex
                = IF host'.selectedCategories = {} THEN host.currentIndex ELSE 0
    ]_vars

\* the page was opened with q=1, the link was applied, and a later category
\* change that leaves question 1 in range put the index at 0
C20_Witness ==
  /\ last.op = "SetCategories" /\ host.initialIndexApplied
  /\ search.kind = "num" /\ search.n = 1
  /\ Len(host.questions) >= 2 /\ host.currentIndex = 0

\* C21: deep-link resolution.  A q that is the decimal numeral of an index in
\* range gives that index; otherwise a q whose trimmed text equals a question
\* text gives the index of a question with that text; otherwise the index is 0.
C21_DeepLinkResolution ==
  (call.fn = "deepLink" /\ call.done) =>
    LET texts == call.arg.texts
        q == call.arg.q
        numeral == q # <<>> /\ \A i \in DOMAIN q : q[i] \in Digits
        inRange == numeral /\ DecimalValue(q) < Len(texts)
        matches == {i \in DOMAIN texts : trim(texts[i]) = trim(q)}
    IN /\ inRange => call.res = DecimalValue(q)
       /\ (~inRange /\ matches # {}) => call.res + 1 \in matches
       /\ (~inRange /\ matches = {}) => call.res = 0

\* C22: at most one animation-frame callback of the motion hook is pending;
\* a sensor event that arrives while one is pending requests no further
\* frame and only replaces the latest value; the callback that runs smooths
\* towards the value of the most recent event.
C22_FrameThrottle ==
  [][ /\ Len(motion'.frames) <= 1
      /\ (motion'.op = "event" /\ motion.frames # <<>>)
           => /\ motion'.frames = motion.frames
              /\ motion'.latestYRef = motion'.recent
              /\ motion'.y = motion.y
      /\ (motion'.op = "frame" /\ motion'.ran = motion.ran + 1)
           => motion'.y = smooth(motion.y, motion.recent) ]_vars

\* two events arrived before the frame; the callback applied the second value
C22_Witness ==
  /\ motion.op = "frame" /\ motion.coalesced /\ motion.frames = <<>>
  /\ motion.recent = 40 /\ motion.y = 40 * (YScale \div 5)

\* the tokens of the text under evaluation, and the options
HyphenTokens == split(call.arg.text)
Hyphenated == call.fn = "hyphenate" /\ call.done
AvailableWidth == call.arg.o.containerWidth - call.arg.o.bufferPx
HasLetter(word) ==
  \E i \in DOMAIN word : InAlphabet(LowerAlphabet, word[i]) \/ InAlphabet(UpperAlphabet, word[i])
FullyUppercase(word) == HasLetter(word) /\ word = toUpperCase(word)

\* C23: a token that is shorter than 6 characters, is fully upper case,
\* contains a digit or a symbol character, or contains a hyphen comes back
\* unchanged, for every container width.
C23_ExcludedTokensUnchanged ==
  Hyphenated =>
    \A i \in DOMAIN HyphenTokens :
      LET word == HyphenTokens[i]
      IN (\/ Len(word) < MinWordLength
          \/ FullyUppercase(word)
          \/ Contains(word, Digits \cup SymbolChars)
          \/ Contains(word, {"-"}))
           => call.res.parts[i] = word

\* the rendered width of a token under the options of the call
MeasuredWidth(word) ==
  IF call.arg.o.context
  THEN CharWidthPx * Cardinality({i \in DOMAIN word : word[i] # SoftHyphen})
  ELSE 0
AllTokensFit == \A i \in DOMAIN HyphenTokens : MeasuredWidth(HyphenTokens[i]) <= AvailableWidth
StripSoftHyphens(str) == SelectSeq(str, LAMBDA c : c # SoftHyphen)
TwoWords == Rep("a", 6) \o <<" ", " ">> \o Rep("a", 7)

\* C24: a token whose measured width is at most containerWidth - bufferPx
\* comes back untouched; a token that was changed is not excluded, is strictly
\* wider than that, and differs from the input only by soft hyphens; a text
\* whose tokens all fit comes back unchanged.
C24_MeasurementGated ==
  Hyphenated =>
    /\ \A i \in DOMAIN HyphenTokens :
         LET word == HyphenTokens[i]
         IN /\ MeasuredWidth(word) <= AvailableWidth => call.res.parts[i] = word
            /\ call.res.parts[i] # word
                 => /\ ~shouldExcludeWord(word)
                    /\ MeasuredWidth(word) > AvailableWidth
                    /\ StripSoftHyphens(call.res.parts[i]) = StripSoftHyphens(word)
    /\ AllTokensFit => call.res.out = call.arg.text

\* a word exactly as wide as the available width is untouched and the wider
\* word next to it is hyphenated
C24_Witness ==
  /\ Hyphenated /\ call.arg.text = TwoWords
  /\ call.arg.o.context /\ call.arg.o.containerWidth = 60 /\ call.arg.o.bufferPx = 0
  /\ call.arg.o.cuts = {2, 4}
  /\ call.res.parts[1] = Rep("a", 6)
  /\ call.res.parts[3] = <<"a", "a", SoftHyphen, "a", "a", SoftHyphen, "a", "a", "a">>

\* C25: without a 2D rendering context apply returns its input unchanged,
\* for every text, container width and buffer.
C25_PassthroughWithoutContext ==
  (Hyphenated /\ ~call.arg.o.context) => call.res.out = call.arg.text

\* C26: on a text whose tokens all fit the available width, applying twice
\* with the same options gives what applying once gives.
C26_IdempotentWhenFits ==
  (Hyphenated /\ call.res.twice /\ AllTokensFit) => call.res.again = call.res.out

\* a measured text of two hyphenable words in a wide container, applied twice
C26_Witness ==
  /\ Hyphenated /\ call.res.twice /\ AllTokensFit
  /\ call.arg.text = TwoWords /\ call.arg.o.context /\ call.arg.o.cuts = {2}
  /\ call.arg.o.containerWidth = 2000
  /\ call.res.again = TwoWords

\* C27: for a text without soft hyphens, deleting the soft hyphens from the
\* result gives the text back; the result has as many tokens, in the same
\* order, and its white-space tokens are the input's.
C27_Lossless ==
  (Hyphenated /\ ~Contains(call.arg.text, {SoftHyphen})) =>
    /\ StripSoftHyphens(call.res.out) = call.arg.text
    /\ Len(call.res.parts) = Len(HyphenTokens)
    /\ split(call.res.out) = call.res.parts
    /\ \A i \in DOMAIN HyphenTokens :
         /\ StripSoftHyphens(call.res.parts[i]) = HyphenTokens[i]
         /\ Contains(HyphenTokens[i], {" "}) => call.res.parts[i] = HyphenTokens[i]

\* both words of a text were hyphenated and the two spaces between them kept
C27_Witness ==
  /\ Hyphenated /\ call.arg.text = TwoWords
  /\ call.arg.o.containerWidth = 10 /\ call.arg.o.cuts = {3}
  /\ call.res.out = <<"a", "a", "a", SoftHyphen, "a", "a", "a", " ", " ",
                      "a", "a", "a", SoftHyphen, "a", "a", "a", "a">>

Resolved == call.fn = "colors" /\ call.done
\* the labels of each case, in upper case
CardLabelsUpper == [i \in DOMAIN CardPalettes |-> {toUpperCase(l) : l \in CardPalettes[i].labels}]
BodyLabelsUpper == [i \in DOMAIN BodyColors |-> {toUpperCase(l) : l \in BodyColors[i].labels}]
\* the cases whose label equals the category up to letter case
CasesFor(labelsUpper, category) ==
  LET upper == toUpperCase(category)
  IN {i \in DOMAIN labelsUpper : upper \in labelsUpper[i]}
IsHslColor(c) == c.kind = "hsl" /\ c.h # <<>> /\ c.s # <<>> /\ c.l # <<>>
Party == <<"p", "a", "r", "t", "y">>

\* C28: for every category string and seed the resolution yields a palette
\* and a body color; a label is matched whatever its letter case, and a
\* string that is no label yields the default palette and default body color.
C28_ColorResolutionTotal ==
  Resolved =>
    LET category == call.arg.category
        palette == call.res.card
        cardCases == CasesFor(CardLabelsUpper, category)
        bodyCases == CasesFor(BodyLabelsUpper, category)
    IN /\ IsHslColor(palette.stripBg) /\ IsHslColor(palette.bodyBg) /\ IsHslColor(call.res.body)
       /\ Len(palette.gradient.layers) = 3
       /\ \A i \in cardCases :
            /\ palette.stripBg = CardPalettes[i].stripBg
            /\ palette.bodyBg = CardPalettes[i].bodyBg
            /\ palette.cardFill = CardPalettes[i].cardFill
            /\ \A j \in 1..3 : palette.gradient.layers[j].rgb = CardPalettes[i].layers[j].rgb
       /\ \A i \in bodyCases : call.res.body = BodyColors[i].color
       /\ cardCases = {}
            => /\ palette.stripBg = DefaultCardPalette.stripBg
               /\ palette.bodyBg = DefaultCardPalette.bodyBg
               /\ palette.cardFill = DefaultCardPalette.cardFill
       /\ bodyCases = {} => call.res.body = DefaultBodyColor

\* the label PARTY in upper case resolved to the palette of party
C28_Witness ==
  /\ Resolved /\ call.arg.category = toUpperCase(Party)
  /\ call.res.card.stripBg = Hsl(300, 100, 50)
  /\ call.res.card.gradient.layers[1].builder = "vertical"
  /\ call.res.body = Hsl(300, 100, 50)

Interpolated == call.fn = "interpolate" /\ call.done

\* C30: interpolate(A, A, t) = A, interpolate(A, B, 0) = A and
\* interpolate(A, B, 1) = B for all base colors A, B and all t in [0, 1].
C30_InterpolationEndpoints ==
  Interpolated =>
    /\ call.arg.a = call.arg.b => call.res = call.arg.a
    /\ call.arg.k = 0 => call.res = call.arg.a
    /\ call.arg.k = ProgressSteps => call.res = call.arg.b

\* from hue 328 to hue 15 at progress 1: the short way crosses 360
C30_Witness ==
  /\ Interpolated /\ call.arg.k = ProgressSteps
  /\ call.arg.a = Hsl(328, 100, 56) /\ call.arg.b = Hsl(15, 100, 50)
  /\ call.res = Hsl(15, 100, 50)

\* the hue of the result, and the hue h1 + d * t brought into [0, 360) and
\* rounded to the nearest integer, in degrees
ResultHue == DecimalValue(call.res.h)
ArcHue(h1, d, k) ==
  (2 * ((h1 * ProgressSteps + d * k) % (360 * ProgressSteps)) + ProgressSteps)
    \div (2 * ProgressSteps)

\* C31: the hue of the result lies in [0, 360) and is h1 + d * t brought into
\* [0, 360), for a delta d with |d| <= 180 and d = h2 - h1 modulo 360.
C31_ShortestHueArc ==
  Interpolated =>
    LET h1 == DecimalValue(call.arg.a.h)
        h2 == DecimalValue(call.arg.b.h)
    IN /\ ResultHue >= 0 /\ ResultHue < 360
       /\ \E d \in -180..180 :
            /\ (d - (h2 - h1)) % 360 = 0
            /\ ResultHue = ArcHue(h1, d, call.arg.k)

\* the slides of the window that are on screen
Rendered(p) == questionProp(host, p).rendered
DragDirection == IF card.dragOffset < 0 THEN -1 ELSE 1

\* C32: while the card is dragged, every rendered slide is translated by its
\* base position plus the drag offset, in the mobile and the desktop layout.
C32_WindowTranslates ==
  (Alive /\ card.isDragging) =>
    \A p \in SlidePositions :
      Rendered(p) =>
        getSlideStyle(card, p).translateX = calc(slideBase(p), card.dragOffset)

\* the scale the active card shrinks to
ActiveFloor == currentScale([dragOffset |-> ReferenceWidth])

\* C33: the drag progress lies in [0, 1]; the active card's scale is
\* 1 - (1 - floor) * progress and lies in [floor, 1]; its rotation is
\* direction * maxAngle * progress and never exceeds maxAngle in magnitude.
C33_ActivePose ==
  Alive =>
    LET progress == getDragProgress(card)
        pose == getSlideStyle(card, "active")
    IN /\ progress >= 0 /\ progress <= ReferenceWidth
       /\ pose.scale * ReferenceWidth =
            ScaleOne * ReferenceWidth - (ScaleOne - ActiveFloor) * progress
       /\ pose.scale >= ActiveFloor /\ pose.scale <= ScaleOne
       /\ pose.rotate * ReferenceWidth = DragDirection * MaxAngle * AngleOne * progress
       /\ Abs(pose.rotate) <= MaxAngle * AngleOne

\* the neighbor the drag moves toward the center
SwipedToward(p) ==
  \/ p = "next" /\ card.dragOffset < 0
  \/ p = "prev" /\ card.dragOffset > 0

RestPose(p) == getSlideStyle([card EXCEPT !.dragOffset = 0], p)

\* C34: the neighbor being swiped toward has scale floor + (1 - floor) *
\* progress, with the floor the active card shrinks to, and rotation
\* -direction * maxAngle * (1 - progress); the other neighbor keeps its rest
\* pose.
C34_IncomingPose ==
  Alive =>
    \A p \in {"prev", "next"} :
      Rendered(p) =>
        LET progress == getDragProgress(card)
            pose == getSlideStyle(card, p)
        IN IF SwipedToward(p)
           THEN /\ pose.scale * ReferenceWidth =
                     ActiveFloor * ReferenceWidth + (ScaleOne - ActiveFloor) * progress
                /\ pose.rotate * ReferenceWidth =
                     -DragDirection * MaxAngle * AngleOne * (ReferenceWidth - progress)
           ELSE /\ pose.scale = RestPose(p).scale
                /\ pose.rotate = RestPose(p).rotate

\* the task that has just run committed a navigation
JustCommitted == Alive /\ (last.out \in CommitOuts \/ last.click \in CommitOuts)
CommittedLeft == last.out = "commitLeft" \/ last.click = "commitLeft"
Incoming == IF CommittedLeft THEN "next" ELSE "prev"

\* C35: a commit by drag release, edge tap or arrow key sets dragOffset to
\* -slideDistance (forward) or +slideDistance (backward); slideDistance is
\* the distance between the base positions of adjacent slides, card width +
\* 16 on mobile and half the viewport plus half the card on desktop; at the
\* commit offset the incoming neighbor stands at the active slide's base.
C35_CommitOffset ==
  JustCommitted =>
    /\ card.dragOffset = IF CommittedLeft THEN -getSlideDistance ELSE getSlideDistance
    /\ getSlideDistance = Pixels(slideBase("next")) - Pixels(slideBase("active"))
    /\ getSlideDistance = Pixels(slideBase("active")) - Pixels(slideBase("prev"))
    /\ getSlideDistance = Pixels(slideBase("next2")) - Pixels(slideBase("next"))
    /\ getSlideDistance = Pixels(slideBase("prev")) - Pixels(slideBase("prev2"))
    /\ getSlideDistance = IF innerWidth < MobileBreakpoint
                          THEN getCardWidth + 16
                          ELSE (innerWidth \div 2) + (getCardWidth \div 2)
    /\ Pixels(getSlideStyle(card, Incoming).translateX) = Pixels(slideBase("active"))

\* an edge tap on the desktop has committed forward
C35_Witness ==
  /\ JustCommitted /\ ~isMobile /\ last.click = "commitLeft"
  /\ card.dragOffset = -((DesktopWidth \div 2) + (DesktopMaxCard \div 2))
  /\ Pixels(getSlideStyle(card, "next").translateX) = 0

WindowShown == call.fn = "window" /\ call.done

\* C36: slot k of the window is rendered iff 0 <= a + k < length; it then
\* holds the record at index a + k with seed a + k, so a record has the
\* same seed in whichever slot it is shown.
C36_CardWindow ==
  WindowShown =>
    LET a == call.arg.index
        qs == call.arg.questions
    IN /\ a >= 0 /\ a < Len(qs)
       /\ \A p \in SlidePositions :
            LET k == SlotOf(p)
                slide == call.res[p]
            IN /\ slide.rendered <=> (0 <= a + k /\ a + k < Len(qs))
               /\ slide.rendered =>
                    /\ slide.question = qs[a + k + 1]
                    /\ slide.seed = a + k
                    /\ slide.seed = slide.question.question - 1

\* two swipes into a sequence of five, all five slots are on screen
C36_Witness ==
  /\ WindowShown /\ Len(call.arg.questions) = MaxWindowLen /\ call.arg.index = 2
  /\ \A p \in SlidePositions : call.res[p].rendered
  /\ call.res["prev2"].seed = 0 /\ call.res["next2"].seed = 4

Selected(q) == q.category \in host'.selectedCategories

\* C37: once the deep link has been applied, a change of the selected
\* categories to a non-empty set makes the sequence the loaded questions of
\* the selected categories, in loaded order, and the active index 0; before
\* the deep link has been applied the index only changes to the deep-link
\* target.
C37_FilterResetsIndex ==
  [][/\ (last'.op = "SetCategories" /\ host.initialIndexApplied
           /\ host'.selectedCategories # {}) =>
          /\ host'.questions = SelectSeq(host.allQuestions, Selected)
          /\ host'.currentIndex = 0
     /\ ~host.initialIndexApplied =>
          host'.currentIndex =
            IF host'.initialIndexApplied /\ search.kind = "num"
               /\ search.n < Len(host'.questions)
            THEN search.n ELSE host.currentIndex]_vars

\* the selection has been narrowed to one category: the two questions of
\* that category are shown from the first
C37_Witness ==
  /\ last.op = "SetCategories" /\ host.initialIndexApplied
  /\ host.selectedCategories = {"party"}
  /\ host.questions = <<LoadedQuestions[1], LoadedQuestions[3]>>
  /\ host.currentIndex = 0 /\ card.mounted

LogoPending == CountKinds(timers, {"logo"}) > 0
CardAtRest == (Idle \/ ~card.mounted) /\ ~CommitPending /\ ~SnapPending /\ ~LogoPending

\* C38: whenever the card is idle or unmounted and no commit, snap-back or
\* logo-reset timer is pending, the host has dragProgress = 0,
\* logoSqueezeDirection = 0, lockedTransformOrigin = null and
\* isDraggingLogo = false.
C38_ChromeAtRest ==
  CardAtRest =>
    /\ host.dragProgress = 0
    /\ host.logoSqueezeDirection = 0
    /\ host.lockedTransformOrigin = Null
    /\ ~host.isDraggingLogo

Shuffled == call.fn = "shuffle" /\ call.done

NoAdjacentSame(seq) == \A i \in 1..(Len(seq) - 1) : seq[i].category # seq[i + 1].category

Reorder(seq, f) == [i \in 1..Len(seq) |-> seq[f[i]]]

\* the categories of the list can be ordered without two equal neighbors
AdmitsAlternation(seq) ==
  \E f \in SortOrders(Len(seq)) : NoAdjacentSame(Reorder(seq, f))

IsPermutationOf(out, seq) ==
  /\ Len(out) = Len(seq)
  /\ \E f \in SortOrders(Len(seq)) : out = Reorder(seq, f)

\* C39: the list returned by the smart shuffle is a permutation of its
\* input and, whenever the input admits an order without two adjacent
\* questions of the same category, has no two such neighbors.
C39_NoAdjacentSameCategory ==
  Shuffled =>
    /\ IsPermutationOf(call.res, call.arg)
    /\ AdmitsAlternation(call.arg) => NoAdjacentSame(call.res)

====
